---- MODULE Spec2Model ----
(***************************************************************************)
(* Split-payment orchestrator of the Evertec ECR middleware.               *)
(*                                                                         *)
(* One slot of Slots is one HTTP request to POST /sales/split-payment.     *)
(* A step of the model is one run-to-completion block of the handler:      *)
(* JavaScript runs a handler without interruption from one `await` of a    *)
(* vendor call (or of the poller's sleep) to the next, and other requests  *)
(* run only while a handler is suspended at such an await.                 *)
(*                                                                         *)
(* Strings of digits (references) are sequences over 0..9, so that         *)
(* parseInt and Number.toString are conversions and not the identity.      *)
(* Text fields of vendor bodies are strings; Absent marks a missing key.   *)
(* Percentages are in thousandths of a percent, money in cents.            *)
(* References stay far below Number.MAX_SAFE_INTEGER, so `++` is exact.    *)
(***************************************************************************)
EXTENDS Integers, Sequences, FiniteSets, TLC

VARIABLES
    pc,               \* slot -> where the handler is suspended
    payload,          \* slot -> the SplitPaymentRequest built from the body
    splitResponse,    \* slot -> the handler's local aggregate (top-level fields)
    partIdx,          \* slot -> loop variable i, as the 1-based part number
    currentReference, \* slot -> let currentReference (a number)
    lastReference,    \* slot -> let lastReference (a string)
    poller,           \* slot -> the running poller: its attempt and trx_id, and
                      \*   the status calls it has made
    lastStatus,       \* slot -> the status body the poller looked at last
    pollResult,       \* slot -> what pollTransactionStatus returned
    httpResponse,     \* slot -> what POST answered
    splitPaymentStore,\* the module-level Map of the store
    partsHeap,        \* split_trx_id -> the parts array object, which the
                      \*   handler and the stored entry both reference
    vendorCalls,      \* slot -> the initiation calls made so far and what the
                      \*   initiator and the poller returned, oldest first
    now,              \* Date.now()
    lastQuery         \* what the latest status query answered

vars == << pc, payload, splitResponse, partIdx, currentReference, lastReference,
           poller, lastStatus, pollResult, httpResponse, splitPaymentStore,
           partsHeap, vendorCalls, now, lastQuery >>

-----------------------------------------------------------------------------
(* Bounds of the model *)

\* requests handled at the same time, each with up to MaxParts parts and
\* MaxAttempts poll attempts; a single request has up to SoloMaxParts parts
\* and SoloMaxAttempts poll attempts
MaxParts == 2
MaxAttempts == 2
SoloMaxParts == 3
SoloMaxAttempts == 2
PollerMaxAttempts == 2
MaxTicks == 2
\* the longest list of parts drawn part by part for the validator
ValidatorMaxParts == 2

Slots == {1, 2}

(* Program constants *)

STORE_LIFETIME_MS == 24 * 60 * 60 * 1000
DefaultMaxPollingAttempts == 60
MaxSplitParts == 10
FullPercentage == 100000
PercentageTolerance == 10
HttpOk == 200

Absent == "<absent>"

Truthy(s) == s \notin {Absent, ""}

\* a || b on strings
OrElse(a, b) == IF Truthy(a) THEN a ELSE b

-----------------------------------------------------------------------------
(* Digit strings *)

RECURSIVE parseIntFrom(_, _)
parseIntFrom(str, acc) ==
    IF str = << >> THEN acc
    ELSE parseIntFrom(Tail(str), acc * 10 + Head(str))

\* parseInt(str, 10) on a non-empty string of decimal digits
parseInt(str) == parseIntFrom(str, 0)

RECURSIVE toString(_)
\* Number.prototype.toString on a non-negative integer
toString(n) ==
    IF n < 10 THEN << n >>
    ELSE Append(toString(n \div 10), n % 10)

-----------------------------------------------------------------------------
(* Amounts.  A field of TransactionAmounts is [kind, cents]:               *)
(*   "undefined" the key is missing, "empty" the string "",                *)
(*   "num" a decimal string such as "6.40" (cents holds its value),        *)
(*   "nonnum" a non-empty string parseFloat turns into NaN.                *)

Undefined == [kind |-> "undefined", cents |-> 0]
EmptyStr == [kind |-> "empty", cents |-> 0]
NonNum == [kind |-> "nonnum", cents |-> 0]
Num(c) == [kind |-> "num", cents |-> c]

AmountFields == {"total", "base_state_tax", "base_reduced_tax", "tip",
                 "state_tax", "reduced_tax", "city_tax", "cashback"}

OptionalAmountFields == AmountFields \ {"total"}

\* a percentage as arithmetic sees it: a number of thousandths of a percent,
\* or NaN for a percentage that is missing or a string that is no number
Number(n) == [nan |-> FALSE, thousandths |-> n]
NotANumber == [nan |-> TRUE, thousandths |-> 0]

\* a string in a condition: if (totalAmounts.tip)
TruthyAmount(v) == v.kind \in {"num", "nonnum"}

\* a share cut to whole cents instead of rounded
TruncateField(v, percentage) ==
    IF v.kind = "num" /\ ~percentage.nan
    THEN Num((v.cents * percentage.thousandths) \div FullPercentage)
    ELSE NonNum

\* (parseFloat(v) * factor).toFixed(2), factor = percentage / 100: the
\* share in cents, rounded to the nearest cent, a half cent upwards;
\* NaN.toFixed(2) is the string "NaN"
SplitField(v, percentage) ==
    IF v.kind = "num" /\ ~percentage.nan
    THEN Num((v.cents * percentage.thousandths + FullPercentage \div 2)
             \div FullPercentage)
    ELSE NonNum

calculateSplitAmounts(totalAmounts, percentage) ==
    [f \in AmountFields |->
        IF f = "total" THEN SplitField(totalAmounts[f], percentage)
        ELSE IF TruthyAmount(totalAmounts[f])
             THEN SplitField(totalAmounts[f], percentage)
             ELSE Undefined]

\* the four checks and the numeric check of validateTransactionAmounts
validateTransactionAmounts(amounts) ==
    LET TaxFields == << "base_state_tax", "base_reduced_tax", "state_tax", "reduced_tax" >>
        has(f) == amounts[f].kind # "undefined"
        hasSome == \E k \in 1..4 : has(TaxFields[k])
    IN
    IF ~hasSome THEN TRUE
    ELSE /\ \A k \in 1..4 : has(TaxFields[k])
         /\ \A k \in 1..4 : amounts[TaxFields[k]].kind # "nonnum"

-----------------------------------------------------------------------------
(* Split configuration *)

PaymentMethods == {"card", "ath-movil"}

Part(method, pct) == [payment_method |-> method, percentage |-> Number(pct)]

\* a part whose percentage is left out, or is a string that is no number
PartWithoutPercentage(method) == [payment_method |-> method, percentage |-> NotANumber]

\* sum + split.percentage: NaN as soon as one of the two is
Plus(a, b) ==
    IF a.nan \/ b.nan THEN NotANumber ELSE Number(a.thousandths + b.thousandths)

\* splits.reduce((sum, split) => sum + split.percentage, 0)
RECURSIVE SumPercentagesFrom(_, _)
SumPercentagesFrom(sum, splits) ==
    IF splits = << >> THEN sum
    ELSE SumPercentagesFrom(Plus(sum, Head(splits).percentage), Tail(splits))

SumPercentages(splits) == SumPercentagesFrom(Number(0), splits)

\* a > n and a <= n: both false of NaN
GreaterThan(a, n) == ~a.nan /\ a.thousandths > n
AtMost(a, n) == ~a.nan /\ a.thousandths <= n

Abs(x) == IF x < 0 THEN -x ELSE x

\* a validator that leaves out the sum of the percentages
validateSplitConfigurationNoSum(splits) ==
    IF Len(splits) = 0 THEN "At least one split part is required"
    ELSE IF Len(splits) > MaxSplitParts THEN "Maximum 10 split parts allowed"
    ELSE IF \E k \in 1..Len(splits) :
                \/ AtMost(splits[k].percentage, 0)
                \/ GreaterThan(splits[k].percentage, FullPercentage)
                \/ splits[k].payment_method \notin PaymentMethods
         THEN "Split part invalid"
    ELSE ""

\* the error validateSplitConfiguration reports, "" when the list is valid
validateSplitConfiguration(splits) ==
    IF Len(splits) = 0 THEN "At least one split part is required"
    ELSE IF Len(splits) > MaxSplitParts THEN "Maximum 10 split parts allowed"
    ELSE IF LET totalPercentage == SumPercentages(splits)
            IN  /\ ~totalPercentage.nan
                /\ Abs(totalPercentage.thousandths - FullPercentage) > PercentageTolerance
         THEN "Split percentages must sum to 100%"
    ELSE IF \E k \in 1..Len(splits) :
                \/ AtMost(splits[k].percentage, 0)
                \/ GreaterThan(splits[k].percentage, FullPercentage)
                \/ splits[k].payment_method \notin PaymentMethods
         THEN "Split part invalid"
    ELSE ""

\* part statuses numbered by the index of map, from 0
NumberedFromZero(splits, totalAmounts) ==
    [k \in 1..Len(splits) |->
        [part_number |-> k - 1,
         payment_method |-> splits[k].payment_method,
         status |-> "pending",
         amounts |-> calculateSplitAmounts(totalAmounts, splits[k].percentage),
         trx_id |-> Absent,
         error |-> Absent]]

createInitialPartStatuses(splits, totalAmounts) ==
    [k \in 1..Len(splits) |->
        [part_number |-> k,
         payment_method |-> splits[k].payment_method,
         status |-> "pending",
         amounts |-> calculateSplitAmounts(totalAmounts, splits[k].percentage),
         trx_id |-> Absent,
         error |-> Absent]]

-----------------------------------------------------------------------------
(* Progress store.  An entry holds the top-level fields of the aggregate   *)
(* by value and the parts array by reference (the object spread copies     *)
(* the reference): `parts` is the key of the array in partsHeap.           *)

Msg(kind, part, detail) == [kind |-> kind, part |-> part, detail |-> detail]

NoEntry ==
    [present |-> FALSE, status |-> "", message |-> Msg("", 0, ""),
     parts |-> 0, reference |-> << >>, stored_at |-> 0]

Entry(data, t) ==
    [present |-> TRUE, status |-> data.status, message |-> data.message,
     parts |-> data.parts, reference |-> data.reference, stored_at |-> t]

\* an entry taken as expired when it is exactly as old as the window
ExpiredAtWindow(e, t) == e.stored_at # 0 /\ t - e.stored_at >= STORE_LIFETIME_MS

\* value._stored_at && now - value._stored_at > STORE_LIFETIME_MS
Expired(e, t) == e.stored_at # 0 /\ t - e.stored_at > STORE_LIFETIME_MS

\* a cleanup that empties the store
CleanupEverything(store, t) == [id \in DOMAIN store |-> NoEntry]

cleanupExpiredEntries(store, t) ==
    [id \in DOMAIN store |->
        IF store[id].present /\ Expired(store[id], t) THEN NoEntry ELSE store[id]]

\* cleanup stands for Math.random() < 0.1
saveSplitPayment(store, id, data, t, cleanup) ==
    LET put == [store EXCEPT ![id] = Entry(data, t)]
    IN IF cleanup THEN cleanupExpiredEntries(put, t) ELSE put

\* an update that is never written
DropUpdate(store, id, updates) == store

\* an update that writes the aggregate without the entry's _stored_at
UpdateWithoutStoredAt(store, id, updates) ==
    IF ~store[id].present THEN store
    ELSE [store EXCEPT ![id] = Entry(updates, 0)]

\* { ...existing, ...updates }: every field of the aggregate is overwritten,
\* _stored_at is kept
updateSplitPayment(store, id, updates) ==
    IF ~store[id].present THEN store
    ELSE [store EXCEPT ![id] = Entry(updates, store[id].stored_at)]

\* the boolean updateSplitPayment returns
updateSplitPaymentResult(store, id) == store[id].present

NotFound == [found |-> FALSE, status |-> "", message |-> Msg("", 0, ""),
             reference |-> << >>, parts |-> << >>]

\* the aggregate without _stored_at, as the caller serialises it
getSplitPayment(store, heap, id) ==
    IF id \notin DOMAIN store \/ ~store[id].present THEN NotFound
    ELSE [found |-> TRUE, status |-> store[id].status,
          message |-> store[id].message, reference |-> store[id].reference,
          parts |-> heap[store[id].parts]]

\* unique per request: a millisecond timestamp and seven random characters
generateSplitTransactionId(s) == s

\* the identifier of the latest of the requests that come after those of
\* Slots, and the identifiers the store may hold
LaterId == Cardinality(Slots) + 1
StoreIds == Slots \cup {LaterId}

\* the references of later requests, one after the other
LaterReferences == {<<1, 0, 1>>, <<1, 0, 2>>}

\* the aggregate a later request saves first
LaterAggregate(ref) ==
    [split_trx_id |-> LaterId, status |-> "processing",
     message |-> Msg("Starting split payment processing", 0, ""),
     parts |-> LaterId, reference |-> ref]

-----------------------------------------------------------------------------
(* Part transaction initiator *)

START_SALE == "/startSale"
START_ATH_MOVIL_SALE == "/startAthMovilSale"
GET_TRANSACTION_STATUS == "/getTrxStatus"
VOID == "/void"
START_REFUND == "/startRefund"
START_ATH_MOVIL_REFUND == "/startAthMovilRefund"

StartEndpoint(part) ==
    IF part.payment_method = "ath-movil" THEN START_ATH_MOVIL_SALE ELSE START_SALE

\* What the vendor may answer to an initiation call.  throws: fetch or
\* response.json() rejected; is_object: the JSON body is an object.  A field
\* is Absent when the body has no such key and "" when the key is there with
\* an empty value.
StartResponses ==
    { [throws |-> TRUE, http |-> 0, is_object |-> FALSE, trx_id |-> Absent,
       error_message |-> Absent, has_error_code |-> FALSE,
       response_message |-> Absent] }
    \cup
    [throws : {FALSE}, http : {HttpOk, 500}, is_object : BOOLEAN,
     trx_id : {Absent, "", "TRX"}, error_message : {Absent, "", "DECLINED"},
     has_error_code : BOOLEAN, response_message : {Absent, "INVALID CARD"}]

StartSamples ==
    { r \in StartResponses :
        \/ r.throws
        \/ /\ r.http = HttpOk /\ r.is_object /\ ~r.has_error_code
           /\ r.response_message = Absent
           /\ r.trx_id # "" /\ r.error_message # ""
           /\ (r.trx_id = Absent) # (r.error_message = Absent) }

\* the value startSplitPartTransaction resolves to
startSplitPartTransaction(r) ==
    IF r.throws \/ ~r.is_object
    THEN [success |-> FALSE, trx_id |-> Absent, error |-> "exception message"]
    ELSE IF r.http # HttpOk \/ r.trx_id = Absent
    THEN [success |-> FALSE, trx_id |-> Absent,
          error |-> IF r.error_message # Absent THEN r.error_message
                    ELSE IF r.has_error_code THEN "Error code: Unknown error"
                    ELSE IF r.response_message # Absent THEN "response_message (Status)"
                    ELSE "Transaction failed (HTTP)"]
    ELSE [success |-> TRUE, trx_id |-> r.trx_id, error |-> Absent]

-----------------------------------------------------------------------------
(* Status poller *)

NoStatus ==
    [throws |-> FALSE, http |-> 0, status |-> Absent, error |-> Absent,
     message |-> Absent, approval_code |-> Absent, response_message |-> Absent,
     txn |-> FALSE, txn_approval_code |-> Absent, txn_response_message |-> Absent,
     has_error_code |-> FALSE, error_message |-> Absent]

Return(status, error) == [done |-> TRUE, status |-> status, error |-> error]
Sleep == [done |-> FALSE, status |-> "pending", error |-> Absent]

\* a poller that knows one approval code only
OnlyCode00(code, message) ==
    IF code = "00" THEN Return("approved", Absent)
    ELSE IF code = "ST" THEN Sleep
    ELSE Return("rejected", OrElse(message, "Transaction declined (Code)"))

ApprovalCodeOutcome(code, message) ==
    IF code \in {"00", "85"} THEN Return("approved", Absent)
    ELSE IF code = "ST" THEN Sleep
    ELSE Return("rejected", OrElse(message, "Transaction declined (Code)"))

\* one pass of the body of the poller's for loop over the answer r
\* a poller that looks at the approval code before the explicit status
CodeBeforeStatus(r) ==
    IF r.throws THEN Return("error", "exception message")
    ELSE IF r.http # HttpOk
    THEN Return("error", IF r.error_message # Absent THEN r.error_message
                         ELSE "Status check failed")
    ELSE IF r.approval_code # Absent
    THEN ApprovalCodeOutcome(r.approval_code, r.response_message)
    ELSE IF Truthy(r.status) /\ r.status = "APPROVED" THEN Return("approved", Absent)
    ELSE IF Truthy(r.status) /\ r.status \in {"REJECTED", "ERROR"}
    THEN Return("rejected", OrElse(r.error, r.message))
    ELSE IF Truthy(r.status) /\ r.status = "PENDING" THEN Sleep
    ELSE IF r.txn THEN ApprovalCodeOutcome(r.txn_approval_code, r.txn_response_message)
    ELSE IF r.has_error_code \/ r.error_message # Absent
    THEN Return("rejected", OrElse(r.error_message, "Transaction failed"))
    ELSE Sleep

PollAttempt(r) ==
    IF r.throws THEN Return("error", "exception message")
    ELSE IF r.http # HttpOk
    THEN Return("error", IF r.error_message # Absent THEN r.error_message
                         ELSE "Status check failed")
    ELSE IF Truthy(r.status) /\ r.status = "APPROVED" THEN Return("approved", Absent)
    ELSE IF Truthy(r.status) /\ r.status \in {"REJECTED", "ERROR"}
    THEN Return("rejected", OrElse(r.error, r.message))
    ELSE IF Truthy(r.status) /\ r.status = "PENDING" THEN Sleep
    ELSE IF r.approval_code # Absent
    THEN ApprovalCodeOutcome(r.approval_code, r.response_message)
    ELSE IF r.txn THEN ApprovalCodeOutcome(r.txn_approval_code, r.txn_response_message)
    ELSE IF r.has_error_code \/ r.error_message # Absent
    THEN Return("rejected", OrElse(r.error_message, "Transaction failed"))
    ELSE Sleep

Timeout == Return("timeout", "Transaction status polling timed out")

NoResult == [done |-> FALSE, status |-> "", error |-> Absent]

-----------------------------------------------------------------------------
(* Requests *)

NoAmounts == [f \in AmountFields |-> Undefined]

\* total $6.40 with both tax pairs
PairedAmounts ==
    [f \in AmountFields |->
        CASE f = "total" -> Num(640)
          [] f = "base_state_tax" -> Num(500)
          [] f = "base_reduced_tax" -> Num(100)
          [] f = "state_tax" -> Num(35)
          [] f = "reduced_tax" -> Num(5)
          [] OTHER -> Undefined]

\* n parts whose percentages sum to 100, alternating card and ath-movil
EvenSplit(n) ==
    [k \in 1..n |->
        Part(IF k % 2 = 1 THEN "card" ELSE "ath-movil",
             IF k < n THEN FullPercentage \div n
             ELSE FullPercentage - (n - 1) * (FullPercentage \div n))]

\* readable: request.json() resolves to an object the handler can read
GoodBody(ref, last, n, attempts) ==
    [readable |-> TRUE, reference |-> ref, last_reference_null |-> FALSE, last_reference |-> last,
     amounts_defined |-> TRUE, amounts |-> PairedAmounts,
     session_id |-> "S1", splits_defined |-> TRUE, splits |-> EvenSplit(n),
     max_polling_attempts |-> attempts]

\* reference and preceding reference: "100" after "99", and "09" as the
\* first transaction of a session
ReferencePairs == { << <<1, 0, 0>>, <<9, 9>> >>, << <<0, 9>>, << >> >> }

GoodBodies ==
    { GoodBody(r[1], r[2], n, a) :
        r \in ReferencePairs, n \in 1..SoloMaxParts, a \in 1..SoloMaxAttempts }

ConcurrentGoodBodies ==
    { GoodBody(<<1, 0, 0>>, <<9, 9>>, n, MaxAttempts) : n \in 1..MaxParts }

\* one accepted body, each time with one thing wrong
BadBodies ==
    LET g == GoodBody(<<1, 0, 0>>, <<9, 9>>, 2, 1)
    IN { [g EXCEPT !.reference = << >>],
         [g EXCEPT !.last_reference_null = TRUE],
         [g EXCEPT !.amounts_defined = FALSE],
         [g EXCEPT !.amounts = [PairedAmounts EXCEPT !["total"] = Undefined]],
         [g EXCEPT !.amounts = [PairedAmounts EXCEPT !["total"] = EmptyStr]],
         [g EXCEPT !.amounts = [PairedAmounts EXCEPT !["reduced_tax"] = Undefined]],
         [g EXCEPT !.amounts = [PairedAmounts EXCEPT !["state_tax"] = NonNum]],
         [g EXCEPT !.session_id = Absent],
         [g EXCEPT !.splits_defined = FALSE],
         [g EXCEPT !.splits = << >>],
         [g EXCEPT !.splits = << Part("card", 50000), Part("card", 45000) >>],
         [g EXCEPT !.splits = << Part("card", 50000), Part("cash", 50000) >>],
         [g EXCEPT !.splits = << Part("card", 100000), Part("card", 0) >>] }

\* percentages around the limits of the validator: 0, 0.01, 0.011, 45, 49.99,
\* 50, 99.99, 100, 100.01 and 101 percent
SamplePercentages == {0, 10, 11, 45000, 49990, 50000, 99990, 100000, 100010, 101000}

SampleParts ==
    LET methods == PaymentMethods \cup {"cash"}
    IN  {Part(m, pct) : m \in methods, pct \in SamplePercentages}
        \cup {PartWithoutPercentage(m) : m \in methods}

SeqsUpTo(S, n) == UNION {[1..k -> S] : k \in 0..n}

\* every list of up to ValidatorMaxParts sample parts, and even lists of ten
\* and eleven parts
SplitLists ==
    SeqsUpTo(SampleParts, ValidatorMaxParts)
    \cup {EvenSplit(MaxSplitParts), EvenSplit(MaxSplitParts + 1)}

\* bodies that pass every check made before the split configuration's
ValidatorBodies ==
    {[GoodBody(<<1, 0, 0>>, <<9, 9>>, 0, 1) EXCEPT !.splits = l] : l \in SplitLists}

TaxFields == {"base_state_tax", "base_reduced_tax", "state_tax", "reduced_tax"}

\* what a tax field of the body may hold: nothing, "", a string that is no
\* number, "0.00", "3.33"
TaxValueSamples == {Undefined, EmptyStr, NonNum, Num(0), Num(333)}

\* two-part bodies over every choice of the four tax fields
TaxBodies ==
    {[GoodBody(<<1, 0, 0>>, <<9, 9>>, 2, 1) EXCEPT !.amounts =
          [f \in AmountFields |->
              IF f \in TaxFields THEN t[f] ELSE PairedAmounts[f]]] :
       t \in [TaxFields -> TaxValueSamples]}

\* totals of one cent, $1.00, $3.33, $9.99 and $200.00
TotalSamples == {1, 100, 333, 999, 20000}

\* three parts of 33.33 percent: 99.99 in all
ThreeThirds == [k \in 1..3 |-> Part("card", 33330)]

\* the lists the validator accepts, each with each total
DriftBodies ==
    {[GoodBody(<<1, 0, 0>>, <<9, 9>>, 0, 1) EXCEPT
          !.splits = l, !.amounts = [NoAmounts EXCEPT !["total"] = Num(c)]] :
       l \in {x \in SplitLists \cup {EvenSplit(3), ThreeThirds} :
                 validateSplitConfiguration(x) = ""},
       c \in TotalSamples}

\* two-part bodies with both tax pairs, over every choice of tip, city_tax
\* and cashback
PresenceBodies ==
    {[GoodBody(<<1, 0, 0>>, <<9, 9>>, 2, 1) EXCEPT !.amounts =
          [f \in AmountFields |->
              IF f \in DOMAIN t THEN t[f] ELSE PairedAmounts[f]]] :
       t \in [{"tip", "city_tax", "cashback"} -> TaxValueSamples]}

IntakeBodies == ValidatorBodies \cup TaxBodies \cup DriftBodies \cup PresenceBodies

\* a body that is not JSON, or is the JSON null: reading it throws
UnreadableBody == [GoodBody(<< >>, << >>, 0, 0) EXCEPT !.readable = FALSE]

Bodies == GoodBodies \cup BadBodies \cup {UnreadableBody}

\* one rejected body for each of the checks: a required field, amounts.total,
\* the tax pairing, the split configuration
ConcurrentBadBodies ==
    { b \in BadBodies :
        \/ b.reference = << >>
        \/ b.amounts["total"] = Undefined
        \/ b.amounts["reduced_tax"] = Undefined
        \/ SumPercentages(b.splits) = Number(95000) }

ConcurrentBodies == ConcurrentGoodBodies \cup ConcurrentBadBodies

\* the payload of lines 45-56; 0 stands for a missing or zero max_polling_attempts
BuildPayload(body) ==
    [body EXCEPT !.max_polling_attempts =
        IF body.max_polling_attempts = 0 THEN DefaultMaxPollingAttempts
        ELSE body.max_polling_attempts]

\* the checks made before the aggregate is created: the error code of the
\* first that fails, "" when all pass
Preflight(p) ==
    IF p.reference = << >> THEN "MISSING_FIELD"
    ELSE IF p.last_reference_null THEN "MISSING_FIELD"
    ELSE IF ~p.amounts_defined THEN "MISSING_FIELD"
    ELSE IF ~Truthy(p.session_id) THEN "MISSING_FIELD"
    ELSE IF ~p.splits_defined THEN "MISSING_FIELD"
    ELSE IF p.amounts["total"].kind \in {"undefined", "empty"} THEN "MISSING_FIELD"
    ELSE IF ~validateTransactionAmounts(p.amounts) THEN "TAX_VALIDATION_ERROR"
    ELSE IF validateSplitConfiguration(p.splits) # "" THEN "INVALID_SPLIT_CONFIG"
    ELSE ""

NoPayload == GoodBody(<< >>, << >>, 0, 0)

-----------------------------------------------------------------------------
(* The handler's steps on the parts array *)

MarkProcessing(parts, k) == [parts EXCEPT ![k].status = "processing"]

\* a failure that is written over every part
FailEveryPart(parts, k, err) ==
    [j \in DOMAIN parts |-> [parts[j] EXCEPT !.status = "error", !.error = err]]

MarkStartFailed(parts, k, err) ==
    [parts EXCEPT ![k].status = "error", ![k].error = err]

StoreTrxId(parts, k, trx) == [parts EXCEPT ![k].trx_id = trx]

\* an approval that is not written to the part
LeaveProcessing(parts, k) == parts

MarkApproved(parts, k) == [parts EXCEPT ![k].status = "approved"]

\* every failed poll marked alike
AlwaysError(pollStatus) == "error"

PartFailureStatus(pollStatus) ==
    IF pollStatus = "rejected" THEN "rejected" ELSE "error"

\* a failure that also takes back the parts handled before
RollBackEarlierParts(parts, k, res) ==
    [j \in DOMAIN parts |->
        IF j < k THEN [parts[j] EXCEPT !.status = "pending"]
        ELSE IF j = k THEN [parts[j] EXCEPT !.status = PartFailureStatus(res.status),
                                            !.error = res.error]
        ELSE parts[j]]

MarkPollFailed(parts, k, res) ==
    [parts EXCEPT ![k].status = PartFailureStatus(res.status),
                  ![k].error = OrElse(res.error, "Transaction " \o res.status)]

\* a loop that goes on unless the vendor declined
NotRejected(res) == res.status # "rejected"

\* if (pollResult.status === 'approved')
PartApproved(res) == res.status = "approved"

\* a loop that steps over a part when two are left
SkipPart(k, n) == IF k + 2 <= n THEN k + 2 ELSE k + 1

\* a loop that runs its part again
RepeatPart(k, n) == k

\* i++ of the loop over the n parts
NextPartIndex(k, n) == k + 1

\* the reference advances and last_reference is left behind
KeepLastReference(cur, last) ==
    [currentReference |-> cur + 1, lastReference |-> last]

\* a failure that leaves the aggregate's status alone
KeepAggregateStatus(resp, message) == [resp EXCEPT !.message = message]

\* splitResponse.status = 'failed' and its message
MarkAggregateFailed(resp, message) ==
    [resp EXCEPT !.status = "failed", !.message = message]

\* lines 213-214
AdvanceReferences(cur, last) ==
    [currentReference |-> cur + 1, lastReference |-> toString(cur)]

-----------------------------------------------------------------------------
(* Initiation calls and the returns of the initiator and of the poller,   *)
(* as a test double would record them.  Status calls are counted in the   *)
(* poller.                                                                 *)

Event(ev, k, endpoint, ref, last, session, trx, amounts, outcome) ==
    [ev |-> ev, part |-> k, endpoint |-> endpoint, reference |-> ref,
     last_reference |-> last, session_id |-> session, trx_id |-> trx,
     amounts |-> amounts, outcome |-> outcome]

\* the request startSplitPartTransaction posts (route lines 156-171)
StartCall(p, parts, k, cur, last) ==
    Event("start", k, StartEndpoint(p.splits[k]), toString(cur), last,
          p.session_id, Absent, parts[k].amounts, "")

StartReturn(k, res) ==
    Event("startReturn", k, "", << >>, << >>, Absent, res.trx_id, NoAmounts,
          IF res.success THEN "success" ELSE "failure")

PollReturn(k, res) ==
    Event("pollReturn", k, "", << >>, << >>, Absent, Absent, NoAmounts, res.status)

-----------------------------------------------------------------------------
(* State *)

NoResponse ==
    [split_trx_id |-> 0, status |-> "", message |-> Msg("", 0, ""),
     parts |-> 0, reference |-> << >>]

NoHttp ==
    [kind |-> "none", http |-> 0, code |-> "", status |-> "",
     message |-> Msg("", 0, ""), parts |-> << >>]

ErrorResponse(code, http) ==
    [kind |-> "error", http |-> http, code |-> code, status |-> "",
     message |-> Msg("", 0, ""), parts |-> << >>]

\* NextResponse.json(splitResponse, { status: 200 })
AggregateResponse(resp, parts) ==
    [kind |-> "aggregate", http |-> HttpOk, code |-> "", status |-> resp.status,
     message |-> resp.message, parts |-> parts]

NoPoller == [attempt |-> 0, trx_id |-> Absent, calls |-> 0, endpoint |-> ""]

NoQuery == [split_trx_id |-> 0, session_id |-> Absent, http |-> 0,
            code |-> "", answer |-> NotFound]

TickMs == STORE_LIFETIME_MS

Init ==
    /\ pc = [s \in Slots |-> "idle"]
    /\ payload = [s \in Slots |-> NoPayload]
    /\ splitResponse = [s \in Slots |-> NoResponse]
    /\ partIdx = [s \in Slots |-> 0]
    /\ currentReference = [s \in Slots |-> 0]
    /\ lastReference = [s \in Slots |-> << >>]
    /\ poller = [s \in Slots |-> NoPoller]
    /\ lastStatus = [s \in Slots |-> NoStatus]
    /\ pollResult = [s \in Slots |-> NoResult]
    /\ httpResponse = [s \in Slots |-> NoHttp]
    /\ splitPaymentStore = [id \in StoreIds |-> NoEntry]
    /\ partsHeap = [id \in StoreIds |-> << >>]
    /\ vendorCalls = [s \in Slots |-> << >>]
    /\ now = TickMs
    /\ lastQuery = NoQuery

-----------------------------------------------------------------------------
(* POST /api/evertec/sales/split-payment *)

\* top of the loop body for part k, up to the call of the initiator
\* a loop that calls the aggregate completed as it starts the last part
CompleteOnLastPart(resp, parts, k) ==
    [resp |-> [resp EXCEPT !.message = Msg("Processing part", k, ""),
                           !.status = IF k = Len(parts) THEN "completed" ELSE @],
     parts |-> MarkProcessing(parts, k)]

BeginPart(resp, parts, k) ==
    [resp |-> [resp EXCEPT !.message = Msg("Processing part", k, "")],
     parts |-> MarkProcessing(parts, k)]

\* a loop test that lets one attempt too many through
OneAttemptMore(attempt, maxAttempts) == attempt <= maxAttempts

\* a loop that never runs out of attempts
AttemptsNeverRunOut(attempt, maxAttempts) == TRUE

\* attempt < maxAttempts, the test of the poller's for loop
AttemptsLeft(attempt, maxAttempts) == attempt < maxAttempts

\* pollTransactionStatus from its loop test: the next status call, or the
\* timeout when no attempt is left
PollerLoop(s, k, attempt, trx, calls, log) ==
    IF AttemptsLeft(attempt, payload[s].max_polling_attempts)
    THEN /\ pc' = [pc EXCEPT ![s] = "status"]
         /\ poller' = [poller EXCEPT ![s] =
                          [attempt |-> attempt, trx_id |-> trx, calls |-> calls + 1,
                           endpoint |-> GET_TRANSACTION_STATUS]]
         /\ pollResult' = [pollResult EXCEPT ![s] = NoResult]
         /\ vendorCalls' = [vendorCalls EXCEPT ![s] = log]
    ELSE /\ pc' = [pc EXCEPT ![s] = "polled"]
         /\ poller' = [poller EXCEPT ![s] =
                          [attempt |-> attempt, trx_id |-> trx, calls |-> calls,
                           endpoint |-> poller[s].endpoint]]
         /\ pollResult' = [pollResult EXCEPT ![s] = Timeout]
         /\ vendorCalls' = [vendorCalls EXCEPT ![s] = Append(log, PollReturn(k, Timeout))]

\* the request arrives: lines 40-171, up to the first vendor call, and the
\* catch of lines 234-236 for what throws before the aggregate exists
Receive(s, body, cleanup) ==
    /\ pc[s] = "idle"
    /\ LET p == BuildPayload(body)
           err == Preflight(p)
           id == generateSplitTransactionId(s)
           resp0 == [split_trx_id |-> id, status |-> "processing",
                     message |-> Msg("Starting split payment processing", 0, ""),
                     parts |-> id, reference |-> p.reference]
           store0 == saveSplitPayment(splitPaymentStore, id, resp0, now, cleanup)
           cur == parseInt(p.reference)
           b == BeginPart(resp0, createInitialPartStatuses(p.splits, p.amounts), 1)
       IN
       IF ~body.readable
       THEN \* the catch of lines 234-236
            /\ pc' = [pc EXCEPT ![s] = "done"]
            /\ httpResponse' = [httpResponse EXCEPT ![s] =
                                   ErrorResponse("INTERNAL_ERROR", 500)]
            /\ UNCHANGED << payload, splitResponse, partIdx, currentReference,
                            lastReference, splitPaymentStore, partsHeap, vendorCalls >>
       ELSE IF err # ""
       THEN /\ pc' = [pc EXCEPT ![s] = "done"]
            /\ payload' = [payload EXCEPT ![s] = p]
            /\ httpResponse' = [httpResponse EXCEPT ![s] = ErrorResponse(err, 400)]
            /\ UNCHANGED << splitResponse, partIdx, currentReference, lastReference,
                            splitPaymentStore, partsHeap, vendorCalls >>
       ELSE /\ pc' = [pc EXCEPT ![s] = "start"]
            /\ payload' = [payload EXCEPT ![s] = p]
            /\ splitResponse' = [splitResponse EXCEPT ![s] = b.resp]
            /\ partsHeap' = [partsHeap EXCEPT ![id] = b.parts]
            /\ splitPaymentStore' = updateSplitPayment(store0, id, b.resp)
            /\ partIdx' = [partIdx EXCEPT ![s] = 1]
            /\ currentReference' = [currentReference EXCEPT ![s] = cur]
            /\ lastReference' = [lastReference EXCEPT ![s] = p.last_reference]
            /\ vendorCalls' = [vendorCalls EXCEPT ![s] =
                                  << StartCall(p, b.parts, 1, cur, p.last_reference) >>]
            /\ UNCHANGED httpResponse
    /\ UNCHANGED << poller, lastStatus, pollResult, now, lastQuery >>

\* the initiation call answers r: lines 173-200 and the first poll attempt
HandleStart(s, r) ==
    /\ pc[s] = "start"
    /\ LET res == startSplitPartTransaction(r)
           k == partIdx[s]
           id == splitResponse[s].split_trx_id
           log == Append(vendorCalls[s], StartReturn(k, res))
           failed == MarkAggregateFailed(splitResponse[s],
                                         Msg("Part failed to start", k, res.error))
           failedParts == MarkStartFailed(partsHeap[id], k, res.error)
       IN
       IF ~res.success
       THEN /\ partsHeap' = [partsHeap EXCEPT ![id] = failedParts]
            /\ splitResponse' = [splitResponse EXCEPT ![s] = failed]
            /\ splitPaymentStore' = updateSplitPayment(splitPaymentStore, id, failed)
            /\ httpResponse' = [httpResponse EXCEPT ![s] =
                                   AggregateResponse(failed, failedParts)]
            /\ pc' = [pc EXCEPT ![s] = "done"]
            /\ vendorCalls' = [vendorCalls EXCEPT ![s] = log]
            /\ UNCHANGED << poller, pollResult >>
       ELSE /\ partsHeap' = [partsHeap EXCEPT ![id] = StoreTrxId(partsHeap[id], k, res.trx_id)]
            /\ splitPaymentStore' = updateSplitPayment(splitPaymentStore, id, splitResponse[s])
            /\ PollerLoop(s, k, 0, res.trx_id, 0, log)
            /\ UNCHANGED << splitResponse, httpResponse >>
    /\ lastStatus' = [lastStatus EXCEPT ![s] = NoStatus]
    /\ UNCHANGED << payload, partIdx, currentReference, lastReference, now, lastQuery >>

\* a status call answers r: one pass of the poller's loop body
HandleStatus(s, r) ==
    /\ pc[s] = "status"
    /\ LET res == PollAttempt(r)
       IN
       /\ lastStatus' = [lastStatus EXCEPT ![s] = r]
       /\ IF res.done
          THEN /\ pc' = [pc EXCEPT ![s] = "polled"]
               /\ pollResult' = [pollResult EXCEPT ![s] = res]
               /\ vendorCalls' = [vendorCalls EXCEPT ![s] =
                                     Append(@, PollReturn(partIdx[s], res))]
          ELSE /\ pc' = [pc EXCEPT ![s] = "sleep"]
               /\ UNCHANGED << pollResult, vendorCalls >>
    /\ UNCHANGED << payload, splitResponse, partIdx, currentReference, lastReference,
                    poller, httpResponse, splitPaymentStore, partsHeap, now, lastQuery >>

\* the poller's timer fires: the answer of the last pass is out of scope,
\* attempt++ and the loop test
SleepEnds(s) ==
    /\ pc[s] = "sleep"
    /\ PollerLoop(s, partIdx[s], poller[s].attempt + 1, poller[s].trx_id,
                  poller[s].calls, vendorCalls[s])
    /\ lastStatus' = [lastStatus EXCEPT ![s] = NoStatus]
    /\ UNCHANGED << payload, splitResponse, partIdx, currentReference, lastReference,
                    httpResponse, splitPaymentStore, partsHeap, now, lastQuery >>

\* pollTransactionStatus has returned (its locals are gone): lines 202-233
\* and, when a part is left, the top of the next iteration
HandlePollResult(s) ==
    /\ pc[s] = "polled"
    /\ LET res == pollResult[s]
           k == partIdx[s]
           id == splitResponse[s].split_trx_id
           resp == splitResponse[s]
           approvedParts == MarkApproved(partsHeap[id], k)
           store1 == updateSplitPayment(splitPaymentStore, id, resp)
           refs == AdvanceReferences(currentReference[s], lastReference[s])
           nk == NextPartIndex(k, Len(partsHeap[id]))
           b == BeginPart(resp, approvedParts, nk)
           completed == [resp EXCEPT
                            !.status = "completed",
                            !.message = Msg("All split payments completed successfully", 0, "")]
           failed == MarkAggregateFailed(resp, Msg("Part " \o res.status, k, res.error))
           failedParts == MarkPollFailed(partsHeap[id], k, res)
       IN
       IF PartApproved(res)
       THEN /\ currentReference' = [currentReference EXCEPT ![s] = refs.currentReference]
            /\ lastReference' = [lastReference EXCEPT ![s] = refs.lastReference]
            /\ partIdx' = [partIdx EXCEPT ![s] = nk]
            /\ IF nk <= Len(partsHeap[id])
               THEN /\ partsHeap' = [partsHeap EXCEPT ![id] = b.parts]
                    /\ splitResponse' = [splitResponse EXCEPT ![s] = b.resp]
                    /\ splitPaymentStore' = updateSplitPayment(store1, id, b.resp)
                    /\ vendorCalls' = [vendorCalls EXCEPT ![s] =
                           Append(@, StartCall(payload[s], b.parts, nk,
                                               refs.currentReference, refs.lastReference))]
                    /\ pc' = [pc EXCEPT ![s] = "start"]
                    /\ UNCHANGED httpResponse
               ELSE /\ partsHeap' = [partsHeap EXCEPT ![id] = approvedParts]
                    /\ splitResponse' = [splitResponse EXCEPT ![s] = completed]
                    /\ splitPaymentStore' = updateSplitPayment(store1, id, completed)
                    /\ httpResponse' = [httpResponse EXCEPT ![s] =
                                           AggregateResponse(completed, approvedParts)]
                    /\ pc' = [pc EXCEPT ![s] = "done"]
                    /\ UNCHANGED vendorCalls
       ELSE /\ partsHeap' = [partsHeap EXCEPT ![id] = failedParts]
            /\ splitResponse' = [splitResponse EXCEPT ![s] = failed]
            /\ splitPaymentStore' = updateSplitPayment(splitPaymentStore, id, failed)
            /\ httpResponse' = [httpResponse EXCEPT ![s] =
                                   AggregateResponse(failed, failedParts)]
            /\ pc' = [pc EXCEPT ![s] = "done"]
            /\ UNCHANGED << partIdx, currentReference, lastReference, vendorCalls >>
    /\ poller' = [poller EXCEPT ![s] = NoPoller]
    /\ lastStatus' = [lastStatus EXCEPT ![s] = NoStatus]
    /\ pollResult' = [pollResult EXCEPT ![s] = NoResult]
    /\ UNCHANGED << payload, now, lastQuery >>

-----------------------------------------------------------------------------
(* Vendor status bodies *)

Status200(status, err, message, code, respMsg, txn, txnCode, txnMsg, hasCode, errMsg) ==
    [throws |-> FALSE, http |-> HttpOk, status |-> status, error |-> err,
     message |-> message, approval_code |-> code, response_message |-> respMsg,
     txn |-> txn, txn_approval_code |-> txnCode, txn_response_message |-> txnMsg,
     has_error_code |-> hasCode, error_message |-> errMsg]

StatusThrows == [NoStatus EXCEPT !.throws = TRUE]

StatusHttp500 == [NoStatus EXCEPT !.http = 500, !.error_message = "TIMEOUT"]

\* the terminal's own answers (approval code and response message), a
\* non-200 answer and a transport failure
SoloStatusSamples ==
    { Status200(Absent, Absent, Absent, "00", "APPROVED", FALSE, Absent, Absent, FALSE, Absent),
      Status200(Absent, Absent, Absent, "ZY", "DECLINED", FALSE, Absent, Absent, FALSE, Absent),
      Status200(Absent, Absent, Absent, "ST", "SENDING", FALSE, Absent, Absent, FALSE, Absent),
      StatusHttp500,
      StatusThrows }

StatusSamples == SoloStatusSamples \ {StatusThrows}

\* every combination of the fields the poller looks at: the explicit status
\* with its error and message, the approval code with its response message,
\* the nested transaction with its own, an error code and an error message
AllStatusResponses ==
    { StatusThrows }
    \cup
    { r \in [throws : {FALSE}, http : {HttpOk, 500},
             status : {Absent, "APPROVED", "REJECTED", "ERROR", "PENDING", "UNKNOWN"},
             error : {Absent, "CARD REMOVED"},
             message : {Absent, "REJECTED BY HOST"},
             approval_code : {Absent, "00", "85", "ST", "ZY"},
             response_message : {Absent, "", "DECLINED"},
             txn : BOOLEAN,
             txn_approval_code : {Absent, "00", "85", "ST", "ZY"},
             txn_response_message : {Absent, "INSUFFICIENT FUNDS"},
             has_error_code : BOOLEAN,
             error_message : {Absent, "TIMEOUT"}] :
        ~r.txn => r.txn_approval_code = Absent /\ r.txn_response_message = Absent }

-----------------------------------------------------------------------------
(* POST /api/evertec/transaction/split-payment-status *)

\* split_trx_id 0 stands for a missing identifier, LaterId + 1 for one that
\* no request was given
\* readable: request.json() resolves to an object the handler can read
\* The callers: the session S1 that makes the requests, with the configured
\* terminal, station and cashier, and a session S2 on another terminal that
\* asks for the first request's identifier
Queries ==
    [readable : BOOLEAN, split_trx_id : 0..(LaterId + 1), session_id : {Absent, "S1"},
     terminal_id : {Absent}, station_number : {Absent}, cashier_id : {Absent}]
    \cup
    [readable : {TRUE}, split_trx_id : {generateSplitTransactionId(1)}, session_id : {"S2"},
     terminal_id : {"T2"}, station_number : {"2"}, cashier_id : {"C2"}]

\* getEvertecEcrConfig(): the identity the environment configures
ConfigTerminalId == "T1"
ConfigStationNumber == "1"
ConfigCashierId == "C1"

\* the payload of lines 33-39
StatusPayload(q) ==
    [split_trx_id |-> q.split_trx_id,
     session_id |-> q.session_id,
     terminal_id |-> OrElse(q.terminal_id, ConfigTerminalId),
     station_number |-> OrElse(q.station_number, ConfigStationNumber),
     cashier_id |-> OrElse(q.cashier_id, ConfigCashierId)]

\* a query answered only on the terminal the environment configures
AnswerOwnTerminalOnly(q, store, heap) ==
    IF ~q.readable
    THEN [split_trx_id |-> 0, session_id |-> Absent,
          http |-> 500, code |-> "INTERNAL_ERROR", answer |-> NotFound]
    ELSE IF q.split_trx_id = 0 \/ ~Truthy(q.session_id)
    THEN [split_trx_id |-> q.split_trx_id, session_id |-> q.session_id,
          http |-> 400, code |-> "MISSING_FIELD", answer |-> NotFound]
    ELSE IF \/ ~getSplitPayment(store, heap, q.split_trx_id).found
            \/ StatusPayload(q).terminal_id # ConfigTerminalId
    THEN [split_trx_id |-> q.split_trx_id, session_id |-> q.session_id,
          http |-> 404, code |-> "NOT_FOUND", answer |-> NotFound]
    ELSE [split_trx_id |-> q.split_trx_id, session_id |-> q.session_id,
          http |-> HttpOk, code |-> "",
          answer |-> getSplitPayment(store, heap, q.split_trx_id)]

StatusQueryAnswer(q, store, heap) ==
    LET p == StatusPayload(q)
    IN  IF ~q.readable
        THEN [split_trx_id |-> 0, session_id |-> Absent,
              http |-> 500, code |-> "INTERNAL_ERROR", answer |-> NotFound]
        ELSE IF p.split_trx_id = 0 \/ ~Truthy(p.session_id)
        THEN [split_trx_id |-> p.split_trx_id, session_id |-> p.session_id,
              http |-> 400, code |-> "MISSING_FIELD", answer |-> NotFound]
        ELSE IF ~getSplitPayment(store, heap, p.split_trx_id).found
        THEN [split_trx_id |-> p.split_trx_id, session_id |-> p.session_id,
              http |-> 404, code |-> "NOT_FOUND", answer |-> NotFound]
        ELSE [split_trx_id |-> p.split_trx_id, session_id |-> p.session_id,
              http |-> HttpOk, code |-> "",
              answer |-> getSplitPayment(store, heap, p.split_trx_id)]

\* a query that takes the aggregate out of the store
QueryAndDelete(q) ==
    /\ lastQuery' = StatusQueryAnswer(q, splitPaymentStore, partsHeap)
    /\ splitPaymentStore' =
           [id \in DOMAIN splitPaymentStore |->
               IF id = q.split_trx_id THEN NoEntry ELSE splitPaymentStore[id]]
    /\ UNCHANGED << pc, payload, splitResponse, partIdx, currentReference,
                    lastReference, poller, lastStatus, pollResult, httpResponse,
                    partsHeap, vendorCalls, now >>

StatusQuery(q) ==
    /\ lastQuery' = StatusQueryAnswer(q, splitPaymentStore, partsHeap)
    /\ UNCHANGED << pc, payload, splitResponse, partIdx, currentReference,
                    lastReference, poller, lastStatus, pollResult, httpResponse,
                    splitPaymentStore, partsHeap, vendorCalls, now >>

-----------------------------------------------------------------------------
(* Time *)

\* A day passes.  A vendor call is cut off after 30 seconds and the steps
\* between two awaits take no time to speak of, so a day can pass only while
\* every request in progress is asleep between two polls: the sleep lasts
\* polling_interval milliseconds, which the caller chooses.
Tick ==
    /\ now < TickMs * (MaxTicks + 1)
    /\ \A s \in Slots : pc[s] \in {"idle", "sleep", "done"}
    /\ now' = now + TickMs
    /\ UNCHANGED << pc, payload, splitResponse, partIdx, currentReference,
                    lastReference, poller, lastStatus, pollResult, httpResponse,
                    splitPaymentStore, partsHeap, vendorCalls, lastQuery >>

-----------------------------------------------------------------------------

Next ==
    \/ \E s \in Slots, body \in ConcurrentBodies, cleanup \in BOOLEAN :
          Receive(s, body, cleanup)
    \/ \E s \in Slots, r \in StartSamples : HandleStart(s, r)
    \/ \E s \in Slots, r \in StatusSamples : HandleStatus(s, r)
    \/ \E s \in Slots : SleepEnds(s)
    \/ \E s \in Slots : HandlePollResult(s)
    \/ Tick

\* requests handled at the same time, with the clock and the store's cleanup
Spec == Init /\ [][Next]_vars

NextSolo ==
    \/ \E body \in Bodies, cleanup \in BOOLEAN : Receive(1, body, cleanup)
    \/ \E r \in StartResponses : HandleStart(1, r)
    \/ \E r \in SoloStatusSamples : HandleStatus(1, r)
    \/ SleepEnds(1)
    \/ HandlePollResult(1)

\* a later request saves its aggregate: route.ts 131, the rest of that
\* request left out
LaterSave(cleanup, ref) ==
    /\ splitPaymentStore' =
           saveSplitPayment(splitPaymentStore, LaterId, LaterAggregate(ref), now, cleanup)
    /\ UNCHANGED << pc, payload, splitResponse, partIdx, currentReference,
                    lastReference, poller, lastStatus, pollResult, httpResponse,
                    partsHeap, vendorCalls, now, lastQuery >>

NextStore ==
    \/ \E body \in ConcurrentBodies, cleanup \in BOOLEAN : Receive(1, body, cleanup)
    \/ \E r \in StartSamples : HandleStart(1, r)
    \/ \E r \in StatusSamples : HandleStatus(1, r)
    \/ SleepEnds(1)
    \/ HandlePollResult(1)
    \/ \E cleanup \in BOOLEAN, ref \in LaterReferences : LaterSave(cleanup, ref)
    \/ \E q \in Queries : StatusQuery(q)
    \/ Tick

\* one request, the requests that come later, the status queries and the clock
SpecStore == Init /\ [][NextStore]_vars

\* the same, where every vendor call of the request settles, its timers
\* fire and the clock goes on; whether requests come later, and whether
\* their saves clean up, is left open
SpecStoreLive ==
    /\ Init /\ [][NextStore]_vars
    /\ WF_vars(\E r \in StartSamples : HandleStart(1, r))
    /\ WF_vars(\E r \in StatusSamples : HandleStatus(1, r))
    /\ WF_vars(SleepEnds(1))
    /\ WF_vars(HandlePollResult(1))
    /\ WF_vars(Tick)

\* the handler up to its first vendor call, over the bodies of the validator
\* and of the allocation
NextIntake == \E body \in IntakeBodies : Receive(1, body, FALSE)

SpecIntake == Init /\ [][NextIntake]_vars

\* one request on its own, over every accepted and rejected body
SpecSolo == Init /\ [][NextSolo]_vars

\* one request on its own, every vendor call returning and every timer
\* firing: the awaited promises settle
SpecSoloLive ==
    /\ Init
    /\ [][NextSolo]_vars
    /\ WF_vars(\E r \in StartResponses : HandleStart(1, r))
    /\ WF_vars(\E r \in SoloStatusSamples : HandleStatus(1, r))
    /\ WF_vars(SleepEnds(1))
    /\ WF_vars(HandlePollResult(1))

NextPoller ==
    \/ \E a \in 1..PollerMaxAttempts :
          Receive(1, GoodBody(<<1, 0, 0>>, <<9, 9>>, 1, a), FALSE)
    \/ \E r \in StartSamples : HandleStart(1, r)
    \/ pc[1] = "status" /\ \E r \in AllStatusResponses : HandleStatus(1, r)
    \/ SleepEnds(1)
    \/ HandlePollResult(1)

\* one part polled, over every shape of status answer
SpecPoller == Init /\ [][NextPoller]_vars

-----------------------------------------------------------------------------
(* Properties of one split payment's vendor calls *)

IsStart(e) == e.ev = "start"

IsApproval(e) == e.ev = "pollReturn" /\ e.outcome = "approved"

\* the events that end a part: its initiation failed, or its poll returned
EndsPart(e, k) ==
    /\ e.part = k
    /\ \/ e.ev = "pollReturn"
       \/ e.ev = "startReturn" /\ e.outcome = "failure"

\* the events that end a part without approval
EndsPartUnapproved(e, k) == EndsPart(e, k) /\ ~IsApproval(e)

TerminalOutcomes == {"approved", "rejected", "timeout", "error"}

InFlight(log, k) ==
    /\ \E i \in 1..Len(log) : IsStart(log[i]) /\ log[i].part = k
    /\ ~\E i \in 1..Len(log) : EndsPart(log[i], k)

Prefix(log, i) == SubSeq(log, 1, i - 1)

ApprovedBefore(log, i) == Len(SelectSeq(Prefix(log, i), IsApproval))

\* C1: within one split payment the parts are initiated in input order, one
\* at a time: the j-th initiation call is for part j, the call for part N+1
\* comes after the status poll of part N has returned a terminal outcome, at
\* most one part has an initiation or a poll outstanding, and a status call
\* is only ever outstanding for that part.
SequentialParts ==
    \A s \in Slots :
        LET log == vendorCalls[s]
            starts == SelectSeq(log, IsStart)
        IN /\ \A j \in 1..Len(starts) : starts[j].part = j
           /\ \A i \in 1..Len(log) :
                  IsStart(log[i]) /\ log[i].part > 1 =>
                      \E j \in 1..(i - 1) :
                          /\ log[j].ev = "pollReturn"
                          /\ log[j].part = log[i].part - 1
                          /\ log[j].outcome \in TerminalOutcomes
           /\ Cardinality({k \in 1..Len(payload[s].splits) : InFlight(log, k)}) <= 1
           /\ pc[s] \in {"start", "status", "sleep"} => InFlight(log, partIdx[s])
           /\ pc[s] \in {"polled", "done"} =>
                  \A k \in 1..Len(payload[s].splits) : ~InFlight(log, k)

\* the third part of a split has been initiated
ThirdPartInitiated ==
    \E s \in Slots : \E i \in 1..Len(vendorCalls[s]) :
        IsStart(vendorCalls[s][i]) /\ vendorCalls[s][i].part = 3

\* C2: every initiation call carries the reference r + (parts approved so
\* far) and, as last_reference, the reference of the most recently approved
\* part (the request's last_reference before any approval); the pair the
\* handler holds has advanced once per approved part it has taken note of
\* and never otherwise.
ReferenceChain ==
    \A s \in Slots :
        LET log == vendorCalls[s]
            r == parseInt(payload[s].reference)
        IN /\ \A i \in 1..Len(log) :
                  IsStart(log[i]) =>
                      LET n == ApprovedBefore(log, i)
                      IN /\ log[i].reference = toString(r + n)
                         /\ log[i].last_reference =
                                IF n = 0 THEN payload[s].last_reference
                                ELSE toString(r + n - 1)
           /\ Len(log) > 0 /\ pc[s] # "polled" =>
                  LET n == Len(SelectSeq(log, IsApproval))
                  IN /\ currentReference[s] = r + n
                     /\ lastReference[s] =
                            IF n = 0 THEN payload[s].last_reference
                            ELSE toString(r + n - 1)

\* reference 100 and last_reference 99 with three approvals: the calls carry
\* (100, 99), (101, 100) and (102, 101)
ChainFrom100 ==
    \E s \in Slots :
        LET starts == SelectSeq(vendorCalls[s], IsStart)
        IN /\ payload[s].reference = << 1, 0, 0 >>
           /\ payload[s].last_reference = << 9, 9 >>
           /\ pc[s] = "done"
           /\ Len(SelectSeq(vendorCalls[s], IsApproval)) = 3
           /\ Len(starts) = 3
           /\ starts[1].reference = << 1, 0, 0 >> /\ starts[1].last_reference = << 9, 9 >>
           /\ starts[2].reference = << 1, 0, 1 >> /\ starts[2].last_reference = << 1, 0, 0 >>
           /\ starts[3].reference = << 1, 0, 2 >> /\ starts[3].last_reference = << 1, 0, 1 >>

\* C3: a request that fails a pre-flight check (a required field,
\* amounts.total, the tax pairing, the split configuration) is answered with
\* a validation error, and in handling it no aggregate is saved, no part
\* list is created, no vendor call is made and the store is left exactly as
\* it was.
PreflightFailureLeavesNoTrace ==
    [][\A s \in Slots :
          /\ pc[s] = "idle"
          /\ pc'[s] # "idle"
          /\ payload'[s] \in { BuildPayload(b) : b \in BadBodies }
          => /\ pc'[s] = "done"
             /\ httpResponse'[s].kind = "error"
             /\ httpResponse'[s].http = 400
             /\ httpResponse'[s].code \in
                    {"MISSING_FIELD", "TAX_VALIDATION_ERROR", "INVALID_SPLIT_CONFIG"}
             /\ splitPaymentStore' = splitPaymentStore
             /\ partsHeap' = partsHeap
             /\ vendorCalls'[s] = << >>
             /\ poller'[s] = NoPoller]_vars

\* a request was refused while the store held another request's aggregate
RefusedBesideStoredAggregate ==
    \E s, t \in Slots :
        /\ httpResponse[s].kind = "error"
        /\ httpResponse[s].code = "INVALID_SPLIT_CONFIG"
        /\ splitPaymentStore[t].present
        /\ pc[t] = "status"

\* C4: once a part has ended without approval (its initiation failed, or
\* its poll returned rejected, timeout or error) that is the last vendor
\* exchange of the split payment: no later part is initiated or polled, no
\* call is outstanding, and every later part is pending in the handler's
\* aggregate, in the store and in the response.
NoPartAfterFailure ==
    \A s \in Slots :
        LET log == vendorCalls[s]
            id == splitResponse[s].split_trx_id
        IN \A i \in 1..Len(log) : \A k \in 1..Len(payload[s].splits) :
               EndsPartUnapproved(log[i], k) =>
                   /\ i = Len(log)
                   /\ \A j \in 1..Len(log) : log[j].part <= k
                   /\ pc[s] \in {"polled", "done"}
                   /\ partIdx[s] = k
                   /\ \A j \in (k + 1)..Len(payload[s].splits) :
                          /\ partsHeap[id][j].status = "pending"
                          /\ getSplitPayment(splitPaymentStore, partsHeap, id).found =>
                                 getSplitPayment(splitPaymentStore, partsHeap, id)
                                     .parts[j].status = "pending"
                          /\ httpResponse[s].kind = "aggregate" =>
                                 httpResponse[s].parts[j].status = "pending"

\* the second of three parts was declined and the request has been answered
SecondOfThreeDeclined ==
    \E s \in Slots :
        /\ pc[s] = "done"
        /\ Len(payload[s].splits) = 3
        /\ \E i \in 1..Len(vendorCalls[s]) :
               /\ vendorCalls[s][i].ev = "pollReturn"
               /\ vendorCalls[s][i].part = 2
               /\ vendorCalls[s][i].outcome = "rejected"
        /\ httpResponse[s].parts[3].status = "pending"

\* C7: a failure after approved parts compensates nothing: the parts already
\* approved are approved in the handler's aggregate, in the store and in the
\* failed response; every vendor call made is an initiation of a sale or a
\* status call, never a void or a refund; and the failing part's outcome is
\* the last vendor exchange.
NoCompensation ==
    \A s \in Slots :
        LET log == vendorCalls[s]
            id == splitResponse[s].split_trx_id
            noted == IF pc[s] = "polled" THEN Len(log) - 1 ELSE Len(log)
        IN /\ \A i \in 1..Len(log) :
                  IsStart(log[i]) =>
                      log[i].endpoint \in {START_SALE, START_ATH_MOVIL_SALE}
           /\ poller[s].endpoint \in {"", GET_TRANSACTION_STATUS}
           /\ {VOID, START_REFUND, START_ATH_MOVIL_REFUND} \cap
                  ({poller[s].endpoint} \cup {log[i].endpoint : i \in 1..Len(log)}) = {}
           /\ \A i \in 1..noted :
                  IsApproval(log[i]) =>
                      /\ partsHeap[id][log[i].part].status = "approved"
                      /\ getSplitPayment(splitPaymentStore, partsHeap, id).found =>
                             getSplitPayment(splitPaymentStore, partsHeap, id)
                                 .parts[log[i].part].status = "approved"
                      /\ httpResponse[s].kind = "aggregate" =>
                             httpResponse[s].parts[log[i].part].status = "approved"
           /\ httpResponse[s].status = "failed" =>
                  /\ pc[s] = "done"
                  /\ poller[s] = NoPoller
                  /\ \E k \in 1..Len(payload[s].splits) :
                         EndsPartUnapproved(log[Len(log)], k)

\* two parts approved, the third failed to start, the answer is failed
FailedAfterTwoApprovals ==
    \E s \in Slots :
        /\ httpResponse[s].status = "failed"
        /\ Len(SelectSeq(vendorCalls[s], IsApproval)) = 2
        /\ httpResponse[s].parts[1].status = "approved"
        /\ httpResponse[s].parts[2].status = "approved"
        /\ httpResponse[s].parts[3].status = "error"

-----------------------------------------------------------------------------
(* Properties of the aggregate: the handler's, the stored one, the response *)

Stored(s) ==
    getSplitPayment(splitPaymentStore, partsHeap, generateSplitTransactionId(s))

AllApproved(parts) == \A j \in 1..Len(parts) : parts[j].status = "approved"

\* every part of the request has been polled to approved
EveryPartApproved(s) ==
    /\ Len(vendorCalls[s]) > 0
    /\ Len(SelectSeq(vendorCalls[s], IsApproval)) = Len(payload[s].splits)

\* an aggregate leaves the store only through the expiry cleanup, which
\* takes it when it was created more than STORE_LIFETIME_MS ago
OnlyExpiryRemoves ==
    \A s \in Slots :
        splitPaymentStore[s].present /\ ~splitPaymentStore'[s].present =>
            now - splitPaymentStore[s].stored_at > STORE_LIFETIME_MS

CompletedMeansAllApproved(s) ==
    /\ httpResponse[s].status = "completed" => AllApproved(httpResponse[s].parts)
    /\ splitResponse[s].status = "completed" =>
           AllApproved(partsHeap[splitResponse[s].split_trx_id])
    /\ Stored(s).found /\ Stored(s).status = "completed" => AllApproved(Stored(s).parts)

\* the step in which the handler of s answers
Answers(s) == pc[s] # "done" /\ pc'[s] = "done"

\* C5 as stated: an aggregate is completed only with every part approved,
\* and a request whose parts were all approved ends answered completed with
\* its aggregate in the store in status completed.
CompletedIffAllApproved ==
    /\ [](\A s \in Slots : CompletedMeansAllApproved(s))
    /\ [][\A s \in Slots :
             Answers(s) /\ EveryPartApproved(s)' =>
                 /\ httpResponse'[s].status = "completed"
                 /\ Stored(s)'.found
                 /\ Stored(s)'.status = "completed"]_vars

\* C5: an aggregate is completed only with every part approved; a request
\* whose parts were all approved ends answered completed, and with its
\* aggregate in the store in status completed unless the expiry cleanup,
\* run by another request's save, has removed it while the request was
\* running, which happens only to an aggregate created more than 24 hours
\* before.
CompletedIffAllApprovedWhileStored ==
    /\ [](\A s \in Slots : CompletedMeansAllApproved(s))
    /\ [][\A s \in Slots :
             Answers(s) /\ EveryPartApproved(s)' =>
                 /\ httpResponse'[s].status = "completed"
                 /\ Stored(s)'.found => Stored(s)'.status = "completed"
                 /\ ~Stored(s)'.found => ~Stored(s).found]_vars
    /\ [][OnlyExpiryRemoves]_vars

\* both parts approved, answered completed, the stored aggregate completed
CompletedAndStored ==
    \E s \in Slots :
        /\ pc[s] = "done"
        /\ Len(payload[s].splits) = 2
        /\ EveryPartApproved(s)
        /\ httpResponse[s].status = "completed"
        /\ Stored(s).found
        /\ Stored(s).status = "completed"

\* the mark a part gets from the vendor exchange that ended it
MarkFor(e) ==
    IF e.ev = "startReturn" THEN "error"
    ELSE IF e.outcome = "rejected" THEN "rejected"
    ELSE "error"

\* the handler of s has answered and the last vendor exchange ended part k
\* without approval
FailedAt(s, k) ==
    /\ pc[s] = "done"
    /\ Len(vendorCalls[s]) > 0
    /\ EndsPartUnapproved(vendorCalls[s][Len(vendorCalls[s])], k)

\* what holds of the failing part and of the handler's own aggregate and its
\* response: the mark, no poll after a failed initiation, status failed
FailureMarked(s) ==
    \A k \in 1..Len(payload[s].splits) :
        FailedAt(s, k) =>
            LET log == vendorCalls[s]
                last == log[Len(log)]
            IN /\ httpResponse[s].kind = "aggregate"
               /\ httpResponse[s].status = "failed"
               /\ splitResponse[s].status = "failed"
               /\ httpResponse[s].parts[k].status = MarkFor(last)
               /\ partsHeap[splitResponse[s].split_trx_id][k].status = MarkFor(last)
               /\ last.ev = "startReturn" =>
                      /\ httpResponse[s].parts[k].status = "error"
                      /\ httpResponse[s].parts[k].trx_id = Absent
                      /\ poller[s] = NoPoller
                      /\ \A i \in 1..Len(log) :
                             ~(log[i].ev = "pollReturn" /\ log[i].part = k)
               /\ last.ev = "pollReturn" /\ last.outcome = "rejected" =>
                      httpResponse[s].parts[k].status = "rejected"
               /\ last.ev = "pollReturn" /\ last.outcome \in {"timeout", "error"} =>
                      httpResponse[s].parts[k].status = "error"

\* the stored aggregate never shows a failed part without status failed,
\* nor status failed without a failed part
FailurePersistedInOneStep(s) ==
    Stored(s).found =>
        ((\E j \in 1..Len(Stored(s).parts) :
             Stored(s).parts[j].status \in {"rejected", "error"})
         <=> Stored(s).status = "failed")

\* C6 as stated: a part that is not approved is marked by how it failed
\* (initiation failure: error, never polled; poll rejected: rejected; poll
\* timeout or error: error) and the aggregate is marked failed in the same
\* persisted step; the aggregate status returned is failed and the aggregate
\* in the store has status failed when the request is answered.
FailureMarkedAndStored ==
    /\ [](\A s \in Slots : FailureMarked(s) /\ FailurePersistedInOneStep(s))
    /\ [][\A s \in Slots :
             Answers(s) /\ httpResponse'[s].status = "failed" =>
                 /\ Stored(s)'.found
                 /\ Stored(s)'.status = "failed"
                 /\ Stored(s)'.parts = httpResponse'[s].parts]_vars

\* C6: a part that is not approved is marked by how it failed (initiation
\* failure: error, never polled; poll rejected: rejected; poll timeout or
\* error: error) and the aggregate is marked failed in the same persisted
\* step; the aggregate status returned is failed, and the aggregate in the
\* store has status failed when the request is answered unless the expiry
\* cleanup has removed it while the request was running, which happens only
\* to an aggregate created more than 24 hours before.
FailureMarkedWhileStored ==
    /\ [](\A s \in Slots : FailureMarked(s) /\ FailurePersistedInOneStep(s))
    /\ [][\A s \in Slots :
             Answers(s) /\ httpResponse'[s].status = "failed" =>
                 /\ Stored(s)'.found =>
                        /\ Stored(s)'.status = "failed"
                        /\ Stored(s)'.parts = httpResponse'[s].parts
                 /\ ~Stored(s)'.found => ~Stored(s).found]_vars
    /\ [][OnlyExpiryRemoves]_vars

\* the poll of the second part timed out: the part is marked error and the
\* stored aggregate is failed
TimedOutPartStoredFailed ==
    \E s \in Slots :
        /\ FailedAt(s, 2)
        /\ vendorCalls[s][Len(vendorCalls[s])].outcome = "timeout"
        /\ Stored(s).found
        /\ Stored(s).status = "failed"
        /\ Stored(s).parts[2].status = "error"

PartStatusRank(status) ==
    CASE status = "pending" -> 0
      [] status = "processing" -> 1
      [] status \in {"approved", "rejected", "error"} -> 2

\* C8: whatever the interleaving of requests, the part statuses a reader of
\* the store can see for one split identifier only move forward along
\* pending, processing, {approved, rejected, error}: from one step to the
\* next no part falls back to an earlier status, and a part that is
\* approved, rejected or error keeps that status.
PartStatusesMonotone ==
    [][\A s \in Slots :
          Stored(s).found /\ Stored(s)'.found =>
              /\ Len(Stored(s)'.parts) = Len(Stored(s).parts)
              /\ \A j \in 1..Len(Stored(s).parts) :
                     /\ PartStatusRank(Stored(s)'.parts[j].status) >=
                            PartStatusRank(Stored(s).parts[j].status)
                     /\ PartStatusRank(Stored(s).parts[j].status) = 2 =>
                            Stored(s)'.parts[j].status = Stored(s).parts[j].status]_vars

\* a reader can see the first part approved and the second one processing
FirstApprovedSecondProcessing ==
    \E s \in Slots :
        /\ Stored(s).found
        /\ Len(Stored(s).parts) = 2
        /\ Stored(s).parts[1].status = "approved"
        /\ Stored(s).parts[2].status = "processing"

\* what a status query for the aggregate of s answers
QueryFor(s) ==
    StatusQueryAnswer([readable |-> TRUE,
                       split_trx_id |-> generateSplitTransactionId(s),
                       session_id |-> payload[s].session_id,
                       terminal_id |-> Absent, station_number |-> Absent,
                       cashier_id |-> Absent],
                      splitPaymentStore, partsHeap)

\* the stored aggregate is the handler's, in progress at part k
InProgressAt(s, k) ==
    /\ QueryFor(s).answer.status = splitResponse[s].status
    /\ QueryFor(s).answer.message = splitResponse[s].message
    /\ QueryFor(s).answer.reference = splitResponse[s].reference
    /\ QueryFor(s).answer.parts = partsHeap[splitResponse[s].split_trx_id]
    /\ QueryFor(s).answer.status = "processing"
    /\ QueryFor(s).answer.message = Msg("Processing part", k, "")
    /\ \A j \in 1..Len(QueryFor(s).answer.parts) :
           QueryFor(s).answer.parts[j].status =
               IF j < k THEN "approved"
               ELSE IF j = k THEN "processing"
               ELSE "pending"

\* the handler of s waits for a vendor call, or sleeps between two polls
Suspended(s) == pc[s] \in {"start", "status", "sleep"}

\* C9 as stated: whenever the handler waits for the initiation or a status
\* poll of part k, a status query for its identifier answers 200 with the
\* handler's current aggregate: status processing, parts before k approved,
\* part k processing, parts after k pending.
LiveProgress ==
    \A s \in Slots :
        Suspended(s) =>
            /\ QueryFor(s).http = HttpOk
            /\ InProgressAt(s, partIdx[s])

\* C9: whenever the handler waits for the initiation or a status poll of
\* part k, a status query for its identifier answers with the handler's
\* current aggregate (status processing, parts before k approved, part k
\* processing, parts after k pending), unless the expiry cleanup has removed
\* the aggregate, which happens only to one created more than 24 hours
\* before; the query then answers 404.
LiveProgressWhileStored ==
    /\ [](\A s \in Slots :
             Suspended(s) =>
                 IF Stored(s).found
                 THEN QueryFor(s).http = HttpOk /\ InProgressAt(s, partIdx[s])
                 ELSE QueryFor(s).http = 404)
    /\ [][OnlyExpiryRemoves]_vars

\* the handler sleeps between two polls of the second part and the store
\* holds its aggregate
AsleepOnSecondPart ==
    \E s \in Slots :
        /\ pc[s] = "sleep"
        /\ partIdx[s] = 2
        /\ QueryFor(s).http = HttpOk
        /\ QueryFor(s).answer.parts[1].status = "approved"

-----------------------------------------------------------------------------
(* Properties of the poller *)

\* The shapes of a status answer the terminal is known to give: an explicit
\* status, a bare approval code, a nested transaction, an error body.
StatusShapes(r) ==
    (IF r.status \in {"APPROVED", "REJECTED", "ERROR", "PENDING"} THEN {"status"} ELSE {})
    \cup (IF r.approval_code # Absent THEN {"code"} ELSE {})
    \cup (IF r.txn THEN {"nested"} ELSE {})
    \cup (IF r.has_error_code \/ r.error_message # Absent THEN {"errorBody"} ELSE {})

\* an answer with HTTP 200 in exactly one of those shapes
OfOneShape(r) == ~r.throws /\ r.http = HttpOk /\ Cardinality(StatusShapes(r)) = 1

SuccessCodes == {"00", "85"}
SendingCode == "ST"

ApprovedClass(r) ==
    /\ OfOneShape(r)
    /\ \/ "status" \in StatusShapes(r) /\ r.status = "APPROVED"
       \/ "code" \in StatusShapes(r) /\ r.approval_code \in SuccessCodes
       \/ "nested" \in StatusShapes(r) /\ r.txn_approval_code \in SuccessCodes

RejectedClass(r) ==
    /\ OfOneShape(r)
    /\ \/ "status" \in StatusShapes(r) /\ r.status \in {"REJECTED", "ERROR"}
       \/ "code" \in StatusShapes(r)
              /\ r.approval_code \notin SuccessCodes \cup {SendingCode}
       \/ "nested" \in StatusShapes(r)
              /\ r.txn_approval_code # Absent
              /\ r.txn_approval_code \notin SuccessCodes \cup {SendingCode}
       \/ "errorBody" \in StatusShapes(r)

\* the messages the vendor put in an answer of one shape
VendorMessages(r) ==
    { m \in (IF "status" \in StatusShapes(r) THEN {r.error, r.message}
             ELSE IF "code" \in StatusShapes(r) THEN {r.response_message}
             ELSE IF "nested" \in StatusShapes(r) THEN {r.txn_response_message}
             ELSE {r.error_message}) : Truthy(m) }

\* C10: the poller stops at the first terminal answer: on an approved-class
\* answer (status APPROVED, or approval code 00 or 85, bare or nested) it
\* returns approved; on a rejected-class or error-class answer (status
\* REJECTED or ERROR, any other approval code but the sending code, an error
\* body) it returns rejected with a message the vendor gave, when the vendor
\* gave one; in both cases it does not sleep, and once it has returned no
\* status call follows for that transaction.
PollerStopsAtTerminalAnswer ==
    [][\A s \in Slots :
          /\ pc[s] = "status" /\ pc'[s] # "status" /\ ApprovedClass(lastStatus'[s]) =>
                 /\ pc'[s] = "polled"
                 /\ pollResult'[s].status = "approved"
                 /\ poller'[s].calls = poller[s].calls
          /\ pc[s] = "status" /\ pc'[s] # "status" /\ RejectedClass(lastStatus'[s]) =>
                 /\ pc'[s] = "polled"
                 /\ pollResult'[s].status = "rejected"
                 /\ poller'[s].calls = poller[s].calls
                 /\ VendorMessages(lastStatus'[s]) # {} =>
                        pollResult'[s].error \in VendorMessages(lastStatus'[s])
          /\ pc[s] = "polled" =>
                 /\ pc'[s] \notin {"status", "sleep"}
                 /\ poller'[s].calls <= poller[s].calls]_vars

\* with an attempt left, the poller returned rejected on a nested approval
\* code, with the message of the nested transaction, after one status call
StoppedOnNestedDecline ==
    \E s \in Slots :
        /\ pc[s] = "polled"
        /\ RejectedClass(lastStatus[s])
        /\ "nested" \in StatusShapes(lastStatus[s])
        /\ pollResult[s].status = "rejected"
        /\ pollResult[s].error = "INSUFFICIENT FUNDS"
        /\ poller[s].calls = 1
        /\ poller[s].attempt + 1 < payload[s].max_polling_attempts

\* the answers that end nothing: still pending in one of the vendor's
\* shapes (status PENDING, the sending code, bare or nested), or HTTP 200
\* with none of the fields the poller knows
NonTerminalClass(r) ==
    /\ ~r.throws
    /\ r.http = HttpOk
    /\ \/ StatusShapes(r) = {}
       \/ /\ OfOneShape(r)
          /\ \/ "status" \in StatusShapes(r) /\ r.status = "PENDING"
             \/ "code" \in StatusShapes(r) /\ r.approval_code = SendingCode
             \/ "nested" \in StatusShapes(r) /\ r.txn_approval_code = SendingCode

-----------------------------------------------------------------------------
(* Termination *)

StartsOfPart(log, k) ==
    Cardinality({i \in 1..Len(log) : IsStart(log[i]) /\ log[i].part = k})

\* C12: every accepted split payment terminates.  With every vendor call
\* returning, a request that has created its aggregate eventually answers,
\* with the aggregate completed or failed; on the way each part is
\* initiated at most once and polled with at most maxAttempts status calls.
AcceptedRequestTerminates ==
    /\ [](\A s \in Slots :
             /\ \A k \in 1..Len(payload[s].splits) : StartsOfPart(vendorCalls[s], k) <= 1
             /\ poller[s].calls <= payload[s].max_polling_attempts)
    /\ \A s \in Slots :
           pc[s] \in {"start", "status", "sleep", "polled"}
           ~> /\ pc[s] = "done"
              /\ httpResponse[s].kind = "aggregate"
              /\ httpResponse[s].status \in {"completed", "failed"}
              /\ splitResponse[s].status = httpResponse[s].status

\* three parts, each approved at its second status call, and the request
\* has answered completed
ThreePartsCompletedOnSecondCall ==
    \E s \in Slots :
        /\ pc[s] = "done"
        /\ Len(payload[s].splits) = 3
        /\ payload[s].max_polling_attempts = 2
        /\ httpResponse[s].status = "completed"
        /\ Len(SelectSeq(vendorCalls[s], IsStart)) = 3

-----------------------------------------------------------------------------
(* Error capture *)

\* nothing of the request exists: no aggregate, no store entry, no vendor call
NothingCreated(s) ==
    /\ splitResponse[s] = NoResponse
    /\ splitPaymentStore[s] = NoEntry
    /\ vendorCalls[s] = << >>

\* the answer is the handler's aggregate, completed or failed
AnsweredWithAggregate(s) ==
    /\ httpResponse[s].kind = "aggregate"
    /\ httpResponse[s].http = HttpOk
    /\ httpResponse[s].status \in {"completed", "failed"}
    /\ httpResponse[s].status = splitResponse[s].status
    /\ httpResponse[s].parts = partsHeap[generateSplitTransactionId(s)]

\* a 400 answer of a pre-flight check, with nothing created
AnsweredWithValidationError(s) ==
    /\ httpResponse[s].kind = "error"
    /\ httpResponse[s].http = 400
    /\ NothingCreated(s)

\* the 500 answer of the handler's catch, with nothing created
AnsweredWithInternalError(s) ==
    /\ httpResponse[s].kind = "error"
    /\ httpResponse[s].http = 500
    /\ httpResponse[s].code = "INTERNAL_ERROR"
    /\ NothingCreated(s)

\* a created aggregate is answered with, and only when completed or failed
CreatedAggregateIsAnswered(s) ==
    /\ pc[s] # "done" => httpResponse[s] = NoHttp
    /\ pc[s] = "done" /\ splitResponse[s] # NoResponse => AnsweredWithAggregate(s)

\* C13 as stated: the entry answers either with a validation error produced
\* before any aggregate exists or with the aggregate, completed or failed.
AllErrorsCaptured ==
    \A s \in Slots :
        /\ CreatedAggregateIsAnswered(s)
        /\ pc[s] = "done" =>
               AnsweredWithValidationError(s) \/ AnsweredWithAggregate(s)

\* C13: all errors are captured.  The entry answers either with an error
\* produced before any aggregate exists (the 400 of a pre-flight check, or
\* the 500 INTERNAL_ERROR of a body that cannot be read) or with the
\* aggregate, completed or failed; whatever the vendor calls do (throw,
\* answer non-200, answer a malformed body), a created aggregate is answered
\* with and is never answered in processing.
AllErrorsCapturedOrInternal ==
    \A s \in Slots :
        /\ CreatedAggregateIsAnswered(s)
        /\ pc[s] = "done" =>
               \/ AnsweredWithValidationError(s)
               \/ AnsweredWithInternalError(s)
               \/ AnsweredWithAggregate(s)

\* the first part was approved, the second part's status call threw, and
\* the request answered with the failed aggregate
FailedAfterThrownStatusCall ==
    \E s \in Slots :
        /\ pc[s] = "done"
        /\ AnsweredWithAggregate(s)
        /\ httpResponse[s].status = "failed"
        /\ Len(partsHeap[s]) >= 2
        /\ partsHeap[s][1].status = "approved"
        /\ partsHeap[s][2].status = "error"

\* a body that cannot be read was answered with the internal error
UnreadableBodyAnswered ==
    \E s \in Slots : pc[s] = "done" /\ AnsweredWithInternalError(s)

-----------------------------------------------------------------------------
(* Initiation *)

StartReturnsOfPart(log, k) ==
    Cardinality({i \in 1..Len(log) : log[i].ev = "startReturn" /\ log[i].part = k})

\* C14: initiation is never retried.  Whatever a part's initiation call
\* returns (a transaction, a refusal, a non-200 answer, a thrown call), the
\* part has at most one initiation call, no initiation call follows a
\* failed one, and the request makes no more initiation calls than it has
\* parts.
InitiationNeverRetried ==
    \A s \in Slots :
        LET log == vendorCalls[s]
        IN  /\ \A k \in 1..Len(payload[s].splits) :
                   /\ StartsOfPart(log, k) <= 1
                   /\ StartReturnsOfPart(log, k) <= StartsOfPart(log, k)
            /\ Len(SelectSeq(log, IsStart)) <= Len(payload[s].splits)
            /\ \A i \in 1..Len(log) :
                   log[i].ev = "startReturn" /\ log[i].outcome = "failure" =>
                       \A j \in (i + 1)..Len(log) : ~IsStart(log[j])

\* the second of three parts had its initiation answered non-200 or thrown:
\* the request has answered and made two initiation calls
SecondInitiationFailedOnce ==
    \E s \in Slots :
        /\ pc[s] = "done"
        /\ Len(payload[s].splits) = 3
        /\ Len(SelectSeq(vendorCalls[s], IsStart)) = 2
        /\ \E i \in 1..Len(vendorCalls[s]) :
               /\ vendorCalls[s][i].ev = "startReturn"
               /\ vendorCalls[s][i].part = 2
               /\ vendorCalls[s][i].outcome = "failure"

-----------------------------------------------------------------------------
(* Split configuration validator *)

RECURSIVE SumOfNumbers(_)
SumOfNumbers(splits) ==
    IF splits = << >> THEN 0
    ELSE Head(splits).percentage.thousandths + SumOfNumbers(Tail(splits))

AllNumbers(splits) == \A k \in 1..Len(splits) : ~splits[k].percentage.nan

\* between 1 and 10 parts, every percentage a number p with 0 < p <= 100,
\* every method card or ath-movil, and the sum within 0.01 of 100
WellFormedSplits(splits) ==
    /\ Len(splits) \in 1..10
    /\ AllNumbers(splits)
    /\ \A k \in 1..Len(splits) :
           /\ splits[k].percentage.thousandths > 0
           /\ splits[k].percentage.thousandths <= 100000
           /\ splits[k].payment_method \in {"card", "ath-movil"}
    /\ SumOfNumbers(splits) \in (100000 - 10)..(100000 + 10)

Received(s) == pc[s] # "idle" /\ payload[s].readable

RefusedForSplits(s) ==
    /\ pc[s] = "done"
    /\ httpResponse[s].kind = "error"
    /\ httpResponse[s].code = "INVALID_SPLIT_CONFIG"

\* C15 as stated: the validator accepts a list of parts exactly when it has
\* 1 to 10 parts, every percentage p satisfies 0 < p <= 100, every method is
\* card or ath-movil and the percentages sum to 100 within 0.01; every other
\* list, one with a missing or non-numeric percentage included, is refused.
ValidatorAcceptsExactlyWellFormed ==
    \A s \in Slots :
        Received(s) =>
            /\ validateSplitConfiguration(payload[s].splits) = ""
                   <=> WellFormedSplits(payload[s].splits)
            /\ RefusedForSplits(s) <=> ~WellFormedSplits(payload[s].splits)

\* what the validator does: on lists whose percentages are all numbers it
\* accepts exactly the well-formed ones; a list with a percentage that is
\* no number escapes the check of the sum and the check of that percentage
ValidatorOnNumbers ==
    \A s \in Slots :
        LET splits == payload[s].splits
        IN  Received(s) =>
                /\ RefusedForSplits(s) <=> validateSplitConfiguration(splits) # ""
                /\ AllNumbers(splits) =>
                       (RefusedForSplits(s) <=> ~WellFormedSplits(splits))
                /\ ~AllNumbers(splits) =>
                       (RefusedForSplits(s) <=>
                            \/ Len(splits) > 10
                            \/ \E k \in 1..Len(splits) :
                                   \/ splits[k].payment_method \notin {"card", "ath-movil"}
                                   \/ /\ ~splits[k].percentage.nan
                                      /\ \/ splits[k].percentage.thousandths <= 0
                                         \/ splits[k].percentage.thousandths > 100000)

\* a single card part without a percentage was accepted and its initiation
\* call made
PartWithoutPercentageAccepted ==
    \E s \in Slots :
        /\ pc[s] = "start"
        /\ payload[s].splits = << PartWithoutPercentage("card") >>
        /\ Len(vendorCalls[s]) = 1

\* eleven parts summing to 100 were refused
ElevenPartsRefused ==
    \E s \in Slots : RefusedForSplits(s) /\ Len(payload[s].splits) = 11

-----------------------------------------------------------------------------
(* Allocation *)

\* the request passed every check and its aggregate was created
Accepted(s) == pc[s] # "idle" /\ splitResponse[s] # NoResponse

CarriesBothPairs(amounts) == \A f \in TaxFields : amounts[f].kind # "undefined"

\* the amounts of every part of the aggregate, and of every initiation call
AllocatedAmounts(s) ==
    {partsHeap[generateSplitTransactionId(s)][k].amounts :
        k \in 1..Len(partsHeap[generateSplitTransactionId(s)])}
    \cup {vendorCalls[s][i].amounts :
            i \in {j \in 1..Len(vendorCalls[s]) : IsStart(vendorCalls[s][j])}}

\* C16 as stated: tax-pair preservation.  For every accepted request whose
\* total carries the four tax fields, whatever values the pairing validation
\* accepted for them, the amounts allocated to every part, and sent to the
\* terminal, carry all four fields.
TaxPairsPreserved ==
    \A s \in Slots :
        Accepted(s) /\ CarriesBothPairs(payload[s].amounts) =>
            \A a \in AllocatedAmounts(s) : CarriesBothPairs(a)

\* what the allocation does: a part carries exactly the tax fields of the
\* total that are non-empty strings
TaxFieldsKeptWhenNonEmpty ==
    \A s \in Slots :
        Accepted(s) =>
            \A a \in AllocatedAmounts(s) : \A f \in TaxFields :
                a[f].kind # "undefined" <=> payload[s].amounts[f].kind = "num"

\* base_reduced_tax and reduced_tax given as "": the request was accepted
\* and its first part sent with base_state_tax and state_tax alone
PartSentWithHalfPairs ==
    \E s \in Slots :
        /\ pc[s] = "start"
        /\ payload[s].amounts["base_reduced_tax"] = EmptyStr
        /\ payload[s].amounts["reduced_tax"] = EmptyStr
        /\ \E i \in 1..Len(vendorCalls[s]) :
               /\ IsStart(vendorCalls[s][i])
               /\ vendorCalls[s][i].amounts["base_state_tax"] = Num(0)
               /\ vendorCalls[s][i].amounts["state_tax"] = Num(167)
               /\ vendorCalls[s][i].amounts["base_reduced_tax"] = Undefined
               /\ vendorCalls[s][i].amounts["reduced_tax"] = Undefined

\* the parts' allocated totals, in cents, added up
RECURSIVE SumOfTotals(_)
SumOfTotals(parts) ==
    IF parts = << >> THEN 0
    ELSE Head(parts).amounts["total"].cents + SumOfTotals(Tail(parts))

Drift(s) ==
    LET d == SumOfTotals(partsHeap[generateSplitTransactionId(s)])
             - payload[s].amounts["total"].cents
    IN  IF d < 0 THEN -d ELSE d

\* every allocated total is an amount of cents
TotalsAllocated(s) ==
    \A k \in 1..Len(partsHeap[generateSplitTransactionId(s)]) :
        partsHeap[generateSplitTransactionId(s)][k].amounts["total"].kind = "num"

TwoHundredInOnePart ==
    \E s \in Slots :
        /\ Accepted(s)
        /\ payload[s].splits = << Part("card", 99990) >>
        /\ payload[s].amounts["total"] = Num(20000)
        /\ Drift(s) = 2

-----------------------------------------------------------------------------
(* Status query *)

\* the query that lastQuery answers
Asked(answer) ==
    [readable |-> answer.code # "INTERNAL_ERROR",
     split_trx_id |-> answer.split_trx_id, session_id |-> answer.session_id,
     terminal_id |-> Absent, station_number |-> Absent, cashier_id |-> Absent]

AggregateFields == {"found", "status", "message", "reference", "parts"}

\* C18: the status query is read-only and idempotent.  A step that answers
\* a query, found or not, changes nothing but the answer; the same query
\* asked again at once gets the identical answer, and so does any query
\* asked before and after a step that leaves the store and the parts alone;
\* a found answer is the stored aggregate without its _stored_at.
StatusQueryReadOnly ==
    [][/\ lastQuery' # lastQuery =>
             /\ UNCHANGED << pc, payload, splitResponse, partIdx, currentReference,
                             lastReference, poller, lastStatus, pollResult,
                             httpResponse, splitPaymentStore, partsHeap,
                             vendorCalls, now >>
             /\ lastQuery' = StatusQueryAnswer(Asked(lastQuery'), splitPaymentStore',
                                               partsHeap')
             /\ DOMAIN lastQuery'.answer = AggregateFields
             /\ lastQuery'.http = HttpOk =>
                    LET e == splitPaymentStore[lastQuery'.split_trx_id]
                    IN  /\ e.present
                        /\ lastQuery'.answer.status = e.status
                        /\ lastQuery'.answer.message = e.message
                        /\ lastQuery'.answer.reference = e.reference
                        /\ lastQuery'.answer.parts = partsHeap[e.parts]
       /\ splitPaymentStore' = splitPaymentStore /\ partsHeap' = partsHeap =>
             \A q \in Queries :
                 StatusQueryAnswer(q, splitPaymentStore', partsHeap')
                     = StatusQueryAnswer(q, splitPaymentStore, partsHeap)]_vars

\* a query found the aggregate of a request asleep on its second part
AnsweredWhileAsleep ==
    /\ lastQuery.http = HttpOk
    /\ lastQuery.split_trx_id = generateSplitTransactionId(1)
    /\ pc[1] = "sleep"
    /\ lastQuery.answer.status = "processing"
    /\ Len(lastQuery.answer.parts) = 2
    /\ lastQuery.answer.parts[1].status = "approved"
    /\ lastQuery.answer.parts[2].status = "processing"

\* a step that answers a well-formed query
AnswersQuery ==
    /\ lastQuery' # lastQuery
    /\ lastQuery'.http \in {HttpOk, 404}

\* the entry the answered query asked for
AskedEntry ==
    IF lastQuery'.split_trx_id \in StoreIds
    THEN splitPaymentStore[lastQuery'.split_trx_id]
    ELSE NoEntry

\* created more than the retention window ago
OlderThanWindow(e) == e.present /\ now - e.stored_at > STORE_LIFETIME_MS

\* C19 as stated: the status query returns the stored aggregate for a
\* known, unexpired identifier and not found for an unknown one or one whose
\* aggregate is older than 24 hours; it never returns an expired aggregate.
FoundIffUnexpired ==
    [][AnswersQuery =>
          (lastQuery'.http = HttpOk
               <=> AskedEntry.present /\ ~OlderThanWindow(AskedEntry))]_vars

\* C19: the status query returns the stored aggregate for every identifier
\* the store holds and not found for every other.  An aggregate stays in the
\* store, with the time of its creation, at least until it is older than 24
\* hours, so a known, unexpired identifier is found and a not-found answer
\* means unknown or expired; an expired aggregate is still returned until a
\* cleanup has removed it.
FoundIffStored ==
    /\ [][AnswersQuery =>
             /\ lastQuery'.http = HttpOk <=> AskedEntry.present
             /\ lastQuery'.http = HttpOk =>
                    /\ lastQuery'.answer.found
                    /\ lastQuery'.answer.status = AskedEntry.status
                    /\ lastQuery'.answer.message = AskedEntry.message
                    /\ lastQuery'.answer.parts = partsHeap[AskedEntry.parts]
             /\ lastQuery'.http = 404 => lastQuery'.code = "NOT_FOUND"]_vars
    /\ [][\A s \in Slots :
             LET e == splitPaymentStore[generateSplitTransactionId(s)]
                 f == splitPaymentStore'[generateSplitTransactionId(s)]
             IN  /\ splitResponse[s] = NoResponse /\ splitResponse'[s] # NoResponse
                        => f.present /\ f.stored_at = now
                 /\ e.present /\ f.present => f.stored_at = e.stored_at
                 /\ e.present /\ ~f.present => OlderThanWindow(e)
                 /\ ~e.present /\ f.present => splitResponse[s] = NoResponse]_vars

\* the aggregate of the first request was removed by a later request's
\* cleanup and a query for it answered not found
NotFoundAfterCleanup ==
    /\ lastQuery.http = 404
    /\ lastQuery.split_trx_id = generateSplitTransactionId(1)
    /\ splitResponse[1] # NoResponse
    /\ ~splitPaymentStore[generateSplitTransactionId(1)].present

\* a query answered with an aggregate created more than 24 hours before
ExpiredAggregateReturned ==
    /\ lastQuery.http = HttpOk
    /\ lastQuery.split_trx_id = generateSplitTransactionId(1)
    /\ OlderThanWindow(splitPaymentStore[generateSplitTransactionId(1)])

-----------------------------------------------------------------------------
(* Expiry *)

EntryOf(s) == splitPaymentStore[generateSplitTransactionId(s)]

\* get for the identifier of s returns nothing
GetReturnsNothing(s) ==
    ~getSplitPayment(splitPaymentStore, partsHeap, generateSplitTransactionId(s)).found

\* the cleanup removes only entries older than the window
CleanupSparesTheUnexpired ==
    \A id \in StoreIds :
        splitPaymentStore[id].present /\ ~splitPaymentStore'[id].present =>
            now - splitPaymentStore[id].stored_at > STORE_LIFETIME_MS

\* a later request saves and its save runs the cleanup
CleaningSave == \E ref \in LaterReferences : LaterSave(TRUE, ref)

\* C20 as stated: expiry is eventual.  Once an aggregate is older than the
\* retention window, get for its identifier eventually returns nothing, and
\* the cleanup never removes an entry that is not older than the window.
ExpiryEventual ==
    /\ \A s \in Slots : OlderThanWindow(EntryOf(s)) ~> GetReturnsNothing(s)
    /\ [][CleanupSparesTheUnexpired]_vars

\* C20: expiry is eventual when saves go on.  If later requests keep saving
\* and their saves keep running the cleanup, then once an aggregate is older
\* than the retention window, get for its identifier eventually returns
\* nothing; and the cleanup never removes an entry that is not older than
\* the window.
ExpiryEventualWhileSavesClean ==
    /\ ([]<><<CleaningSave>>_vars) =>
           \A s \in Slots : OlderThanWindow(EntryOf(s)) ~> GetReturnsNothing(s)
    /\ [][CleanupSparesTheUnexpired]_vars

\* the request has answered completed, two days have passed, and the save
\* of a later request has removed its aggregate and kept the later one
RemovedByLaterSave ==
    /\ pc[1] = "done"
    /\ httpResponse[1].status = "completed"
    /\ GetReturnsNothing(1)
    /\ splitPaymentStore[LaterId].present
    /\ splitPaymentStore[LaterId].stored_at = now

-----------------------------------------------------------------------------
(* Terminal aggregates *)

TerminalStatuses == {"completed", "failed"}

\* C21: terminal aggregates are immutable.  Once the stored aggregate of an
\* identifier has status completed or failed, no step changes its status,
\* its message, or the status (or any other field) of one of its parts; the
\* only later change is its removal, which happens only when it is older
\* than the retention window.
TerminalAggregatesImmutable ==
    [][\A s \in Slots :
          LET id == generateSplitTransactionId(s)
              before == getSplitPayment(splitPaymentStore, partsHeap, id)
              after == getSplitPayment(splitPaymentStore', partsHeap', id)
          IN  before.found /\ before.status \in TerminalStatuses =>
                  \/ /\ ~after.found
                     /\ now - splitPaymentStore[id].stored_at > STORE_LIFETIME_MS
                  \/ /\ after.found
                     /\ after.status = before.status
                     /\ after.message = before.message
                     /\ after.parts = before.parts]_vars

\* the aggregate of one request is stored failed while the other request
\* is between two polls of its second part
FailedBesideRunningRequest ==
    \E s, t \in Slots :
        /\ s # t
        /\ Stored(s).found
        /\ Stored(s).status = "failed"
        /\ pc[t] = "sleep"
        /\ partIdx[t] = 2

-----------------------------------------------------------------------------
(* Transport failures of the status call *)

\* the status call threw, or answered with another HTTP status than 200
TransportFailure(r) == r.throws \/ r.http # HttpOk

\* a 200 answer with none of the fields the poller knows
UnrecognizedBody(r) ==
    /\ ~TransportFailure(r)
    /\ ~Truthy(r.status) /\ r.approval_code = Absent /\ ~r.txn
    /\ ~r.has_error_code /\ r.error_message = Absent

\* the step in which a status call of s is answered
StatusAnswered(s) == pc[s] = "status" /\ pc'[s] # "status"

\* attempts remain after the one under way
AttemptsRemain(s) == poller[s].attempt + 1 < payload[s].max_polling_attempts

\* C22 as stated: a transport failure or unexpected-shape answer of a status
\* call is taken as still pending while attempts remain (the poller sleeps
\* and polls again), and an error outcome is surfaced only when no attempts
\* remain.
TransportFailureToleratedWhileAttemptsRemain ==
    [][\A s \in Slots :
          StatusAnswered(s) =>
              /\ (TransportFailure(lastStatus'[s]) \/ UnrecognizedBody(lastStatus'[s]))
                 /\ AttemptsRemain(s)
                     => pc'[s] = "sleep"
              /\ pc'[s] = "polled" /\ pollResult'[s].status = "error"
                     => ~AttemptsRemain(s)]_vars

\* what the poller does: a transport failure returns error at once, whatever
\* attempts remain; an unrecognized body is slept on
TransportFailureReturnsAtOnce ==
    [][\A s \in Slots :
          StatusAnswered(s) =>
              /\ TransportFailure(lastStatus'[s])
                     => /\ pc'[s] = "polled"
                        /\ pollResult'[s].status = "error"
              /\ UnrecognizedBody(lastStatus'[s]) => pc'[s] = "sleep"]_vars

\* two attempts allowed: the first status call answered non-200 and the
\* poller returned error without a second call
ErrorAfterFirstOfTwoCalls ==
    \E s \in Slots :
        /\ pc[s] = "polled"
        /\ payload[s].max_polling_attempts = 2
        /\ poller[s].calls = 1
        /\ pollResult[s].status = "error"
        /\ lastStatus[s].http = 500

-----------------------------------------------------------------------------
(* One terminal session *)

\* the parts of request s in flight: initiated and not yet at the return of
\* a failed initiation or of the poller
PartsInFlight(s) ==
    {k \in 1..Len(payload[s].splits) : InFlight(vendorCalls[s], k)}

\* the initiation calls made on a session: request and place in its log
StartsOnSession(session) ==
    UNION {{<< s, i >> : i \in {j \in 1..Len(vendorCalls[s]) :
                                   /\ IsStart(vendorCalls[s][j])
                                   /\ vendorCalls[s][j].session_id = session}} :
           s \in Slots}

\* C23 as stated: no parallel execution on the shared terminal.  At any
\* moment at most one part is in flight on one terminal session, also when
\* two requests with the same session identifier are handled at the same
\* time, and no two initiation calls on one session carry the same reference.
OnePartInFlightPerSession ==
    /\ \A s \in Slots : Cardinality(PartsInFlight(s)) <= 1
    /\ \A s, t \in Slots :
           s # t /\ payload[s].session_id = payload[t].session_id =>
               PartsInFlight(s) = {} \/ PartsInFlight(t) = {}
    /\ \A c, d \in StartsOnSession("S1") :
           c # d => vendorCalls[c[1]][c[2]].reference # vendorCalls[d[1]][d[2]].reference

\* what holds: one request has at most one part in flight and never uses a
\* reference twice
OnePartInFlightPerRequest ==
    \A s \in Slots :
        /\ Cardinality(PartsInFlight(s)) <= 1
        /\ \A c, d \in StartsOnSession("S1") :
               c # d /\ c[1] = s /\ d[1] = s =>
                   vendorCalls[s][c[2]].reference # vendorCalls[s][d[2]].reference

\* two requests of session S1 each have their first part in flight, both
\* initiated with reference 100
TwoPartsInFlightOnOneSession ==
    /\ payload[1].session_id = "S1" /\ payload[2].session_id = "S1"
    /\ PartsInFlight(1) = {1} /\ PartsInFlight(2) = {1}
    /\ vendorCalls[1][1].reference = toString(100)
    /\ vendorCalls[2][1].reference = toString(100)

-----------------------------------------------------------------------------
(* The three shapes of a status answer *)

\* what the poller made of the answered status call
Outcome(s) == IF pc'[s] = "sleep" THEN "pending" ELSE pollResult'[s].status

\* the class of an approval code, bare or nested
CodeClass(code) ==
    IF code \in {"00", "85"} THEN "approved"
    ELSE IF code = "ST" THEN "pending"
    ELSE "rejected"

RecognizedStatuses == {"APPROVED", "PENDING", "REJECTED", "ERROR"}

\* the class of a recognized explicit status
StatusClass(status) ==
    IF status = "APPROVED" THEN "approved"
    ELSE IF status = "PENDING" THEN "pending"
    ELSE "rejected"

\* C24: the poller classifies a status answer the same way in the three
\* shapes.  A recognized explicit status decides, whatever approval code
\* the answer also carries: APPROVED approved, PENDING still pending,
\* REJECTED and ERROR rejected.  Without one, the bare approval code
\* decides, and without that the approval code of the nested transaction,
\* both by the same rule: 00 and 85 approved, ST still pending, any other
\* code rejected.
SameClassInThreeShapes ==
    [][\A s \in Slots :
          LET r == lastStatus'[s]
          IN  StatusAnswered(s) /\ ~TransportFailure(r) =>
                  /\ pc'[s] \in {"sleep", "polled"}
                  /\ IF r.status \in RecognizedStatuses
                     THEN Outcome(s) = StatusClass(r.status)
                     ELSE IF r.approval_code # Absent
                     THEN Outcome(s) = CodeClass(r.approval_code)
                     ELSE r.txn /\ r.txn_approval_code # Absent =>
                              Outcome(s) = CodeClass(r.txn_approval_code)]_vars

\* an answer with status PENDING and approval code 00 was slept on
PendingStatusBeforeCode00 ==
    \E s \in Slots :
        /\ pc[s] = "sleep"
        /\ lastStatus[s].status = "PENDING"
        /\ lastStatus[s].approval_code = "00"

\* an answer whose nested transaction carries code 85 was taken as approved
NestedCode85Approved ==
    \E s \in Slots :
        /\ pc[s] = "polled"
        /\ pollResult[s].status = "approved"
        /\ lastStatus[s].status = Absent
        /\ lastStatus[s].approval_code = Absent
        /\ lastStatus[s].txn
        /\ lastStatus[s].txn_approval_code = "85"

-----------------------------------------------------------------------------
(* Field presence *)

Present(v) == v.kind # "undefined"

\* C25 as stated: the allocator preserves field presence exactly.  For
\* every input amount and percentage, an optional field is present in a
\* part's amounts if and only if it is present in the input, "0.00"
\* counting as present; total is always present.
PresencePreserved ==
    \A s \in Slots :
        Accepted(s) =>
            \A a \in AllocatedAmounts(s) :
                /\ Present(a["total"])
                /\ \A f \in OptionalAmountFields :
                       Present(a[f]) <=> Present(payload[s].amounts[f])

\* what the allocator does: an optional field is present in a part's
\* amounts if and only if it is a non-empty string in the input
PresentWhenNonEmpty ==
    \A s \in Slots :
        Accepted(s) =>
            \A a \in AllocatedAmounts(s) :
                /\ Present(a["total"])
                /\ \A f \in OptionalAmountFields :
                       Present(a[f]) <=> payload[s].amounts[f].kind \in {"num", "nonnum"}

\* tip given as "", city_tax as "0.00": the part carries city_tax "0.00"
\* and no tip
EmptyTipDropped ==
    \E s \in Slots :
        /\ Accepted(s)
        /\ payload[s].amounts["tip"] = EmptyStr
        /\ payload[s].amounts["city_tax"] = Num(0)
        /\ \A a \in AllocatedAmounts(s) : a["tip"] = Undefined /\ a["city_tax"] = Num(0)

-----------------------------------------------------------------------------
(* C26: the two normalized outcomes of the initiator *)

\* the vendor answered HTTP 200 with an object body that has a trx_id key
AnsweredWithTrxId(r) ==
    ~r.throws /\ r.is_object /\ r.http = HttpOk /\ r.trx_id # Absent

\* what the handler kept of the initiation calls that have returned
StartReturns(s) ==
    { i \in 1..Len(vendorCalls[s]) : vendorCalls[s][i].ev = "startReturn" }

ErrorOfPart(s, k) == partsHeap[splitResponse[s].split_trx_id][k].error

\* C26: the initiator returns exactly one of two normalized outcomes for
\* every vendor behaviour.  When the vendor answers HTTP 200 with a body
\* containing trx_id the outcome is success with a transaction identifier;
\* for every other behaviour (error-code body, declined body, malformed
\* body, non-200 answer, thrown transport error) it is a failure with a
\* non-empty error string and no transaction identifier.  Stated on what
\* the handler holds of every initiation call that has returned: a success
\* came with a transaction identifier, a failure came with none and left a
\* non-empty error string on its part.
TwoNormalizedOutcomes ==
    \A i \in StartReturns(1) :
        LET e == vendorCalls[1][i]
        IN  IF e.outcome = "success"
            THEN Truthy(e.trx_id)
            ELSE e.trx_id = Absent /\ Truthy(ErrorOfPart(1, e.part))

\* What the code does keep: success exactly when the answer is HTTP 200 with
\* a trx_id key, whose value is handed on as it is; otherwise a failure
\* with no transaction identifier and an error value, which is the body's
\* error_message as it is when the body has that key.
TwoOutcomesByKeyPresence ==
    /\ \A r \in StartResponses :
          LET res == startSplitPartTransaction(r)
          IN  IF AnsweredWithTrxId(r)
              THEN res.success /\ res.trx_id = r.trx_id /\ res.error = Absent
              ELSE /\ ~res.success /\ res.trx_id = Absent /\ res.error # Absent
                   /\ (Truthy(res.error) \/ r.error_message = "")
    /\ \A i \in StartReturns(1) :
          LET e == vendorCalls[1][i]
          IN  IF e.outcome = "success"
              THEN e.trx_id # Absent
              ELSE e.trx_id = Absent /\ ErrorOfPart(1, e.part) # Absent

\* an initiation succeeded with an empty transaction identifier, and the
\* poller is asking for the status of that identifier
PollingAnEmptyTrxId ==
    /\ pc[1] = "status"
    /\ poller[1].trx_id = ""
    /\ \E i \in StartReturns(1) :
          vendorCalls[1][i].outcome = "success" /\ vendorCalls[1][i].trx_id = ""

\* an initiation failed and the part's error string is empty
FailedWithEmptyError ==
    /\ pc[1] = "done"
    /\ splitResponse[1].status = "failed"
    /\ \E i \in StartReturns(1) :
          /\ vendorCalls[1][i].outcome = "failure"
          /\ ErrorOfPart(1, vendorCalls[1][i].part) = ""

-----------------------------------------------------------------------------
(* C27: the part statuses of a new aggregate *)

\* number and payment method of every part status, in order
Skeleton(parts) ==
    [k \in 1..Len(parts) |-> << parts[k].part_number, parts[k].payment_method >>]

\* the same of the parts of the request body
InputSkeleton(splits) ==
    [k \in 1..Len(splits) |-> << k, splits[k].payment_method >>]

AllPending(parts) == \A k \in 1..Len(parts) : parts[k].status = "pending"

\* C27: on acceptance the aggregate is created with status processing and
\* one part status per part of the request, in the order of the request
\* (part k has part_number k and the payment method of input part k), all
\* pending; the handler turns the first to processing before it first
\* yields.  The number, the order and the payment methods of the part
\* statuses never change afterwards, in the handler's array and in the
\* stored aggregate.
PartStatusesFollowInput ==
    /\ [](\A s \in Slots :
            Accepted(s) =>
                /\ Skeleton(partsHeap[generateSplitTransactionId(s)])
                       = InputSkeleton(payload[s].splits)
                /\ Stored(s).found =>
                       Skeleton(Stored(s).parts) = InputSkeleton(payload[s].splits))
    /\ [][\A s \in Slots :
            LET id == generateSplitTransactionId(s)
                created == createInitialPartStatuses(payload'[s].splits,
                                                     payload'[s].amounts)
            IN  /\ ~Accepted(s) /\ Accepted(s)' =>
                       /\ Len(created) = Len(payload'[s].splits)
                       /\ Skeleton(created) = InputSkeleton(payload'[s].splits)
                       /\ AllPending(created)
                       /\ splitResponse'[s].status = "processing"
                       /\ Stored(s)'.found
                       /\ Stored(s)'.status = "processing"
                       /\ Stored(s)'.parts = MarkProcessing(created, 1)
                /\ Accepted(s) =>
                       Skeleton(partsHeap'[id]) = Skeleton(partsHeap[id])]_vars

\* three parts were accepted, the first is approved and the second is
\* waiting for its initiation call
ThreePartStatusesSecondStarting ==
    /\ pc[1] = "start"
    /\ partIdx[1] = 2
    /\ Len(payload[1].splits) = 3
    /\ Skeleton(Stored(1).parts)
           = << <<1, "card">>, <<2, "ath-movil">>, <<3, "card">> >>
    /\ Stored(1).parts[1].status = "approved"
    /\ Stored(1).parts[3].status = "pending"

-----------------------------------------------------------------------------
(* C28: the shape of a stored aggregate *)

Unapproved == {"rejected", "error"}

UnapprovedParts(parts) == {k \in 1..Len(parts) : parts[k].status \in Unapproved}

\* approved parts, then at most one part that is processing, rejected or
\* error, then pending parts
ApprovedPrefixShape(parts) ==
    \E a \in 0..Len(parts) :
        /\ \A k \in 1..a : parts[k].status = "approved"
        /\ a < Len(parts) =>
               parts[a + 1].status \in {"processing", "pending"} \cup Unapproved
        /\ \A k \in (a + 2)..Len(parts) : parts[k].status = "pending"

\* C28: in every stored aggregate the part statuses are a prefix of
\* approved parts, followed by at most one part that is processing,
\* rejected or error, followed only by pending parts; the aggregate's status
\* is failed if and only if exactly one part is rejected or error, and while
\* the aggregate's status is processing no part is rejected or error.
StoredAggregateShape ==
    \A s \in Slots :
        LET agg == Stored(s)
        IN  agg.found =>
                /\ ApprovedPrefixShape(agg.parts)
                /\ agg.status = "failed" <=>
                       Cardinality(UnapprovedParts(agg.parts)) = 1
                /\ agg.status = "processing" => UnapprovedParts(agg.parts) = {}

\* one aggregate is stored failed with its second part rejected after an
\* approved first, the other is stored processing with its first part
\* approved and its second processing
RejectedAfterApprovedBesideProcessing ==
    \E s, t \in Slots :
        /\ Stored(s).found /\ Stored(t).found
        /\ Stored(s).status = "failed"
        /\ Len(Stored(s).parts) = 2
        /\ Stored(s).parts[1].status = "approved"
        /\ Stored(s).parts[2].status = "rejected"
        /\ Stored(t).status = "processing"
        /\ Len(Stored(t).parts) = 2
        /\ Stored(t).parts[1].status = "approved"
        /\ Stored(t).parts[2].status = "processing"

-----------------------------------------------------------------------------
(* C29: the retention age is counted from the creation *)

\* the aggregates the handlers hold and the one of the later requests
UpdatesAtHand ==
    {splitResponse[s] : s \in {t \in Slots : Accepted(t)}}
    \cup {LaterAggregate(ref) : ref \in LaterReferences}

\* C29: the retention age of an aggregate is measured from its creation.
\* updateSplitPayment never changes the stored-at timestamp of the entry,
\* and when the identifier is absent it returns false and creates no entry;
\* so no step of a handler after the creation of its aggregate creates the
\* entry or moves its timestamp, and a timestamp is set or reset only by
\* saveSplitPayment, to the time of the save.
StoredAtSetOnlyBySave ==
    /\ [](\A id \in StoreIds, updates \in UpdatesAtHand :
            LET after == updateSplitPayment(splitPaymentStore, id, updates)
            IN  /\ after[id].present = splitPaymentStore[id].present
                /\ after[id].stored_at = splitPaymentStore[id].stored_at
                /\ \A other \in StoreIds \ {id} :
                       after[other] = splitPaymentStore[other]
                /\ updateSplitPaymentResult(splitPaymentStore, id)
                       = splitPaymentStore[id].present
                /\ ~updateSplitPaymentResult(splitPaymentStore, id) =>
                       after = splitPaymentStore)
    /\ [][\A id \in StoreIds :
            LET e == splitPaymentStore[id]
                f == splitPaymentStore'[id]
            IN  /\ id \in Slots /\ Accepted(id) /\ f.present =>
                       e.present /\ f.stored_at = e.stored_at
                /\ f.present /\ (~e.present \/ f.stored_at # e.stored_at) =>
                       /\ f.stored_at = now
                       /\ id \in Slots => ~Accepted(id) /\ Accepted(id)']_vars

\* the aggregate was created a day ago, before the sleep between two polls
\* of its first part, and has been updated since: the first part is approved
\* and the second is starting
UpdatedADayAfterCreation ==
    /\ pc[1] = "start"
    /\ partIdx[1] = 2
    /\ Stored(1).found
    /\ Stored(1).parts[1].status = "approved"
    /\ Stored(1).parts[2].status = "processing"
    /\ splitPaymentStore[1].stored_at = now - TickMs

\* the handler finished after its entry was removed, and no entry came back
FinishedAfterRemoval ==
    /\ pc[1] = "done"
    /\ Accepted(1)
    /\ splitResponse[1].status = "completed"
    /\ ~splitPaymentStore[1].present

-----------------------------------------------------------------------------
(* C30: who asks does not matter *)

\* the queries of every caller: a non-empty session identifier, and each of
\* terminal, station and cashier given or left to the configuration
CallerQueries ==
    [readable : {TRUE}, split_trx_id : 0..(LaterId + 1), session_id : {"S1", "S2"},
     terminal_id : {Absent, "T2"}, station_number : {Absent, "2"},
     cashier_id : {Absent, "C2"}]

\* the query for the same identifier by the caller whose request created
\* the split payments
CreatorsQuery(q) ==
    [q EXCEPT !.session_id = "S1", !.terminal_id = Absent,
              !.station_number = Absent, !.cashier_id = Absent]

\* what the caller receives: the HTTP status, the error code, the aggregate
AnswerSent(a) == [http |-> a.http, code |-> a.code, answer |-> a.answer]

\* C30: the answer of a status query depends only on the split identifier
\* and on the content of the store.  Two queries that differ only in the
\* (non-empty) session identifier, the terminal, the station or the cashier
\* get the same answer: the session of the query is not compared with the
\* session that created the split payment.
AnswerIgnoresCaller ==
    \A q \in CallerQueries :
        AnswerSent(StatusQueryAnswer(q, splitPaymentStore, partsHeap))
            = AnswerSent(StatusQueryAnswer(CreatorsQuery(q), splitPaymentStore,
                                           partsHeap))

\* another session, on another terminal, was given the aggregate that
\* session S1 created, while the handler of S1 sleeps between two polls
OtherSessionAnswered ==
    /\ lastQuery.http = HttpOk
    /\ lastQuery.session_id = "S2"
    /\ lastQuery.split_trx_id = generateSplitTransactionId(1)
    /\ payload[1].session_id = "S1"
    /\ pc[1] = "sleep"
    /\ lastQuery.answer = Stored(1)

====
